---- MODULE Spec2Model ----
(***************************************************************************)
(* A model of the rusty-wam abstract machine: the machine state of         *)
(* machine_state_impl.rs, the term copier of copier.rs and the builtin     *)
(* bytecode of builtins.rs.                                                *)
(*                                                                         *)
(* The machine state is the set of VARIABLES below, one per field of       *)
(* MachineState.  Every instruction handler is written as an operator from *)
(* a machine record (the record M of all fields) to the machine record     *)
(* after the handler, so that the sequential composition inside a handler  *)
(* (bind, then trail; the push-down list of unify; the scan of the copier) *)
(* is ordinary operator composition.  An action reads M, applies the       *)
(* handler and commits every field.                                        *)
(***************************************************************************)
EXTENDS Integers, Sequences, FiniteSets, TLC

VARIABLES
    s, p, b, b0, e, num_of_args, cp, fail, heap, mode, and_stack, or_stack,
    registers, trail, tr, hb, block, ball, interms,   \* MachineState
    call_policy, cut_policy,                          \* the installed policies
    status, output,                                   \* dispatch loop, display/1
    scenario, obs                                     \* the query being run, observations

mvars == <<s, p, b, b0, e, num_of_args, cp, fail, heap, mode, and_stack, or_stack,
           registers, trail, tr, hb, block, ball, interms, call_policy, cut_policy,
           status, output>>
vars == <<mvars, scenario, obs>>

----------------------------------------------------------------------------
(* Cells.  Addr and HeapCellValue share one record shape so that any two   *)
(* cells can be compared.                                                  *)

Cell(t, a, c, n) == [t |-> t, a |-> a, b |-> c, s |-> n]
HeapCell(r)      == Cell("HeapCell", r, 0, "")
StackCell(fr, sc) == Cell("StackCell", fr, sc, "")
Lis(a)           == Cell("Lis", a, 0, "")
Str(a)           == Cell("Str", a, 0, "")
Atom(n)          == Cell("Atom", 0, 0, n)
Integer(i)       == Cell("Integer", i, 0, "")
Rational(n, d)   == Cell("Rational", n, d, "")
Float(n, d)      == Cell("Float", n, d, "")
Usize(i)         == Cell("Usize", i, 0, "")
EmptyList        == Cell("EmptyList", 0, 0, "")
NamedStr(ar, n)  == Cell("NamedStr", ar, 0, n)

is_ref(a) == a.t \in {"HeapCell", "StackCell"}
is_con(a) == a.t \in {"Atom", "Integer", "Rational", "Float", "Usize", "EmptyList"}
is_protected(a, fr) == ~(a.t = "StackCell" /\ a.a >= fr)

(* HeapCellValue::as_addr: a structure header read as an address is a Str  *)
(* pointing at itself.                                                     *)
as_addr(v, focus) == IF v.t = "NamedStr" THEN Str(focus) ELSE v

TopLevel(i) == [k |-> "TopLevel", i |-> i]
DirEntry(i) == [k |-> "DirEntry", i |-> i]
PtrAdd(q, n) == [q EXCEPT !.i = @ + n]

NumRegisters == 64
NumInterms == 256
RegIdx == 0 .. (NumRegisters - 1)

----------------------------------------------------------------------------
(* The machine record.                                                     *)

M == [s |-> s, p |-> p, b |-> b, b0 |-> b0, e |-> e, num_of_args |-> num_of_args,
      cp |-> cp, fail |-> fail, heap |-> heap, mode |-> mode,
      and_stack |-> and_stack, or_stack |-> or_stack, registers |-> registers,
      trail |-> trail, tr |-> tr, hb |-> hb, block |-> block, ball |-> ball,
      interms |-> interms, call_policy |-> call_policy, cut_policy |-> cut_policy,
      status |-> status, output |-> output]

Commit(m) ==
    /\ s' = m.s /\ p' = m.p /\ b' = m.b /\ b0' = m.b0 /\ e' = m.e
    /\ num_of_args' = m.num_of_args /\ cp' = m.cp /\ fail' = m.fail
    /\ heap' = m.heap /\ mode' = m.mode /\ and_stack' = m.and_stack
    /\ or_stack' = m.or_stack /\ registers' = m.registers /\ trail' = m.trail
    /\ tr' = m.tr /\ hb' = m.hb /\ block' = m.block /\ ball' = m.ball
    /\ interms' = m.interms /\ call_policy' = m.call_policy
    /\ cut_policy' = m.cut_policy /\ status' = m.status /\ output' = m.output

DefaultCallPolicy == [kind |-> "Default", limits |-> <<>>, count |-> 0]
DefaultCutPolicy  == [kind |-> "Default", cont_pts |-> <<>>]

(* MachineState::new *)
NewMachine ==
    [s |-> 0, p |-> TopLevel(0), b |-> 0, b0 |-> 0, e |-> 0, num_of_args |-> 0,
     cp |-> TopLevel(0), fail |-> FALSE, heap |-> <<>>, mode |-> "Write",
     and_stack |-> <<>>, or_stack |-> <<>>,
     registers |-> [i \in RegIdx |-> HeapCell(0)],
     trail |-> <<>>, tr |-> 0, hb |-> 0, block |-> 0,
     ball |-> [origin |-> 0, cells |-> <<>>],
     interms |-> [i \in 1 .. NumInterms |-> Integer(0)],
     call_policy |-> DefaultCallPolicy, cut_policy |-> DefaultCutPolicy,
     status |-> "idle", output |-> <<>>]

(* Heap: h is the number of cells; cells are addressed from 0. *)
h_of(m) == Len(m.heap)
HeapAt(m, r) == m.heap[r + 1]
HeapPut(m, r, v) == [m EXCEPT !.heap[r + 1] = v]
HeapPush(m, v) == [m EXCEPT !.heap = Append(@, v)]
HeapTruncate(m, n) == [m EXCEPT !.heap = IF n < Len(@) THEN SubSeq(@, 1, n) ELSE @]

(* AndStack: frame fr is and_stack[fr], its cell sc is and_stack[fr][sc]. *)
Frame(m, fr) == m.and_stack[fr + 1]
StackAt(m, fr, sc) == m.and_stack[fr + 1].perms[sc]
StackPut(m, fr, sc, v) == [m EXCEPT !.and_stack[fr + 1].perms[sc] = v]

(* OrStack: the frame of choice point b is or_stack[b - 1]. *)
OrFrame(m, i) == m.or_stack[i + 1]
OrTruncate(m, n) == [m EXCEPT !.or_stack = IF n < Len(@) THEN SubSeq(@, 1, n) ELSE @]

(* Registers: Temp(n) is registers[n], Perm(n) is cell n of frame e. *)
temp_v(n) == [k |-> "Temp", n |-> n]
perm_v(n) == [k |-> "Perm", n |-> n]
Reg(m, r) == IF r.k = "Temp" THEN m.registers[r.n] ELSE StackAt(m, m.e, r.n)
SetReg(m, r, v) ==
    IF r.k = "Temp" THEN [m EXCEPT !.registers[r.n] = v] ELSE StackPut(m, m.e, r.n, v)

----------------------------------------------------------------------------
(* store, deref, bind, trail (machine_state_impl.rs 55-261)                *)

next_global_index(m) ==
    LET ag == IF Len(m.and_stack) > 0 THEN Frame(m, m.e).global_index ELSE 0
        og == IF m.b > 0 THEN OrFrame(m, m.b - 1).global_index ELSE 0
    IN  (IF ag > og THEN ag ELSE og) + 1

store(m, a) ==
    CASE a.t = "HeapCell"  -> as_addr(HeapAt(m, a.a), a.a)
      [] a.t = "StackCell" -> StackAt(m, a.a, a.b)
      [] OTHER             -> a

RECURSIVE deref(_, _)
deref(m, a) ==
    LET value == store(m, a)
    IN  IF is_ref(value) /\ value # a THEN deref(m, value) ELSE a

(* a trail that records every binding *)
trail_always(m, r) == [m EXCEPT !.trail = Append(@, r), !.tr = @ + 1]

trail_ref(m, r) ==
    IF r.t = "HeapCell"
    THEN IF r.a < m.hb
         THEN [m EXCEPT !.trail = Append(@, r), !.tr = @ + 1]
         ELSE m
    ELSE LET fr_gi == Frame(m, r.a).global_index
             b_gi  == IF Len(m.or_stack) > 0
                      THEN IF m.b > 0 THEN OrFrame(m, m.b - 1).global_index ELSE 0
                      ELSE 0
         IN  IF fr_gi < b_gi
             THEN [m EXCEPT !.trail = Append(@, r), !.tr = @ + 1]
             ELSE m

SetRef(m, r, v) ==
    IF r.t = "StackCell" THEN StackPut(m, r.a, r.b, v) ELSE HeapPut(m, r.a, v)

bind(m, r1, a2) ==
    LET t2 == store(m, a2)
    IN  trail_ref(SetRef(m, r1, t2), r1)

(* a unify that takes two different constants for equal *)
unify_any_constants(m, a1, a2) ==
    IF is_con(store(m, deref(m, a1))) /\ is_con(store(m, deref(m, a2)))
    THEN [m EXCEPT !.fail = FALSE]
    ELSE [m EXCEPT !.fail = TRUE]

RECURSIVE unify_loop(_, _)
unify_loop(m, pdl) ==
    IF pdl = <<>> \/ m.fail THEN m
    ELSE
    LET n    == Len(pdl)
        d1   == deref(m, pdl[n])
        d2   == deref(m, pdl[n - 1])
        rest == SubSeq(pdl, 1, n - 2)
        s1   == store(m, d1)
        s2   == store(m, d2)
    IN  IF d1 = d2 THEN unify_loop(m, rest)
        ELSE CASE s1.t = "HeapCell"  -> unify_loop(bind(m, s1, d2), rest)
               [] s2.t = "HeapCell"  -> unify_loop(bind(m, s2, d1), rest)
               [] s1.t = "StackCell" -> unify_loop(bind(m, s1, d2), rest)
               [] s2.t = "StackCell" -> unify_loop(bind(m, s2, d1), rest)
               [] s1.t = "Lis" /\ s2.t = "Lis" ->
                    unify_loop(m, rest \o <<HeapCell(s1.a), HeapCell(s2.a),
                                            HeapCell(s1.a + 1), HeapCell(s2.a + 1)>>)
               [] is_con(s1) /\ is_con(s2) ->
                    unify_loop(IF s1 # s2 THEN [m EXCEPT !.fail = TRUE] ELSE m, rest)
               [] s1.t = "Str" /\ s2.t = "Str" ->
                    LET r1 == HeapAt(m, s1.a)
                        r2 == HeapAt(m, s2.a)
                        args(i) == <<HeapCell(s1.a + i), HeapCell(s2.a + i)>>
                        RECURSIVE pushes(_)
                        pushes(i) == IF i > r1.a THEN <<>> ELSE args(i) \o pushes(i + 1)
                    IN  IF r1.t = "NamedStr" /\ r2.t = "NamedStr"
                           /\ r1.a = r2.a /\ r1.s = r2.s
                        THEN unify_loop(m, rest \o pushes(1))
                        ELSE unify_loop([m EXCEPT !.fail = TRUE], rest)
               [] OTHER -> unify_loop([m EXCEPT !.fail = TRUE], rest)

(* a unify that keeps the fail flag it is called with *)
unify_sticky(m, a1, a2) == unify_loop(m, <<a1, a2>>)

unify(m, a1, a2) == unify_loop([m EXCEPT !.fail = FALSE], <<a1, a2>>)

RECURSIVE unwind_trail(_, _, _)
unwind_trail(m, a1, a2) ==
    IF a1 >= a2 THEN m
    ELSE LET r == m.trail[a1 + 1]
         IN  unwind_trail(SetRef(m, r, r), a1 + 1, a2)

(* a tidy loop that lowers tr without moving the last entry into the gap *)
RECURSIVE tidy_loop_drop_last(_, _)
tidy_loop_drop_last(m, i) ==
    IF i >= m.tr THEN m
    ELSE LET tr_i == m.trail[i + 1]
             keep == IF tr_i.t = "HeapCell"
                     THEN tr_i.a < m.hb
                     ELSE LET fr_gi == Frame(m, tr_i.a).global_index
                              b_gi  == IF Len(m.or_stack) > 0
                                       THEN OrFrame(m, m.b - 1).global_index
                                       ELSE 0
                          IN  fr_gi < b_gi
         IN  IF keep THEN tidy_loop_drop_last(m, i + 1)
             ELSE tidy_loop_drop_last([m EXCEPT !.tr = @ - 1], i)

RECURSIVE tidy_loop(_, _)
tidy_loop(m, i) ==
    IF i >= m.tr THEN m
    ELSE LET tr_i == m.trail[i + 1]
             keep == IF tr_i.t = "HeapCell"
                     THEN tr_i.a < m.hb
                     ELSE LET fr_gi == Frame(m, tr_i.a).global_index
                              b_gi  == IF Len(m.or_stack) > 0
                                       THEN OrFrame(m, m.b - 1).global_index
                                       ELSE 0
                          IN  fr_gi < b_gi
         IN  IF keep THEN tidy_loop(m, i + 1)
             ELSE tidy_loop([m EXCEPT !.trail[i + 1] = m.trail[m.tr], !.tr = @ - 1], i)

tidy_trail(m) ==
    IF m.b = 0 THEN m ELSE tidy_loop(m, OrFrame(m, m.b - 1).tr)

write_constant_to_var(m, addr0, c) ==
    LET addr == deref(m, addr0)
        v    == store(m, addr)
    IN  CASE v.t = "HeapCell"  -> trail_ref(HeapPut(m, v.a, c), v)
          [] v.t = "StackCell" -> trail_ref(StackPut(m, v.a, v.b, c), v)
          [] is_con(v)         -> IF v # c THEN [m EXCEPT !.fail = TRUE] ELSE m
          [] OTHER             -> [m EXCEPT !.fail = TRUE]

----------------------------------------------------------------------------
(* Instructions.  The constructors carry the names of the macros that      *)
(* builtins.rs uses to write the builtin code.                             *)

get_constant(c, r)        == [op |-> "GetConstant", c |-> c, r |-> r]
get_list(r)               == [op |-> "GetList", r |-> r]
get_structure(n, ar, r)   == [op |-> "GetStructure", name |-> n, arity |-> ar, r |-> r]
get_var_in_fact(r, arg)   == [op |-> "GetVariable", r |-> r, arg |-> arg]
get_value(r, arg)         == [op |-> "GetValue", r |-> r, arg |-> arg]
unify_constant(c)         == [op |-> "UnifyConstant", c |-> c]
unify_variable(r)         == [op |-> "UnifyVariable", r |-> r]
unify_local_value(r)      == [op |-> "UnifyLocalValue", r |-> r]
unify_value(r)            == [op |-> "UnifyValue", r |-> r]
unify_void(n)             == [op |-> "UnifyVoid", n |-> n]

get_var_in_query(r, arg)  == [op |-> "GetVariable", r |-> r, arg |-> arg]
put_constant(c, r)        == [op |-> "PutConstant", c |-> c, r |-> r]
put_list(r)               == [op |-> "PutList", r |-> r]
put_structure(n, ar, r)   == [op |-> "PutStructure", name |-> n, arity |-> ar, r |-> r]
put_unsafe_value(n, arg)  == [op |-> "PutUnsafeValue", n |-> n, arg |-> arg]
put_value(r, arg)         == [op |-> "PutValue", r |-> r, arg |-> arg]
put_var(r, arg)           == [op |-> "PutVariable", r |-> r, arg |-> arg]
set_constant(c)           == [op |-> "SetConstant", c |-> c]
set_local_value(r)        == [op |-> "SetLocalValue", r |-> r]
set_variable(r)           == [op |-> "SetVariable", r |-> r]
set_value(r)              == [op |-> "SetValue", r |-> r]
set_void(n)               == [op |-> "SetVoid", n |-> n]

fact(is)  == [op |-> "Fact", is |-> is]
query(is) == [op |-> "Query", is |-> is]

(* FactInstruction::GetList (machine_state_impl.rs 598-621) *)
fact_get_list(m, i) ==
    LET addr == deref(m, Reg(m, i.r))
        v    == store(m, addr)
        h    == h_of(m)
    IN  CASE is_ref(v) ->
               [bind(HeapPush(m, Lis(h + 1)), v, HeapCell(h)) EXCEPT !.mode = "Write"]
          [] v.t = "Lis" -> [m EXCEPT !.s = v.a, !.mode = "Read"]
          [] OTHER -> [m EXCEPT !.fail = TRUE]

(* a GetStructure that reads from the header of the structure on *)
fact_get_structure_header(m, i) ==
    LET addr == deref(m, Reg(m, i.r))
        v    == store(m, addr)
        h    == h_of(m)
    IN  CASE v.t = "Str" ->
               LET hd == HeapAt(m, v.a)
               IN  IF hd.t = "NamedStr"
                   THEN IF hd.a = i.arity /\ hd.s = i.name
                        THEN [m EXCEPT !.s = v.a, !.mode = "Read"]
                        ELSE [m EXCEPT !.fail = TRUE]
                   ELSE m
          [] is_ref(v) ->
               [bind(HeapPush(HeapPush(m, Str(h + 1)), NamedStr(i.arity, i.name)),
                     addr, HeapCell(h)) EXCEPT !.mode = "Write"]
          [] OTHER -> [m EXCEPT !.fail = TRUE]

(* FactInstruction::GetStructure (machine_state_impl.rs 622-646) *)
fact_get_structure(m, i) ==
    LET addr == deref(m, Reg(m, i.r))
        v    == store(m, addr)
        h    == h_of(m)
    IN  CASE v.t = "Str" ->
               LET hd == HeapAt(m, v.a)
               IN  IF hd.t = "NamedStr"
                   THEN IF hd.a = i.arity /\ hd.s = i.name
                        THEN [m EXCEPT !.s = v.a + 1, !.mode = "Read"]
                        ELSE [m EXCEPT !.fail = TRUE]
                   ELSE m
          [] is_ref(v) ->
               [bind(HeapPush(HeapPush(m, Str(h + 1)), NamedStr(i.arity, i.name)),
                     addr, HeapCell(h)) EXCEPT !.mode = "Write"]
          [] OTHER -> [m EXCEPT !.fail = TRUE]

(* execute_fact_instr (machine_state_impl.rs 592-749) *)
execute_fact_instr(m, i) ==
    CASE i.op = "GetConstant" -> write_constant_to_var(m, Reg(m, i.r), i.c)
      [] i.op = "GetList" -> fact_get_list(m, i)
      [] i.op = "GetStructure" -> fact_get_structure(m, i)
      [] i.op = "GetVariable" -> SetReg(m, i.r, m.registers[i.arg])
      [] i.op = "GetValue" -> unify(m, Reg(m, i.r), m.registers[i.arg])
      [] i.op = "UnifyConstant" ->
            LET m1 == IF m.mode = "Read"
                      THEN write_constant_to_var(m, HeapCell(m.s), i.c)
                      ELSE HeapPush(m, i.c)
            IN  [m1 EXCEPT !.s = @ + 1]
      [] i.op = "UnifyVariable" ->
            LET m1 == IF m.mode = "Read"
                      THEN SetReg(m, i.r, as_addr(HeapAt(m, m.s), m.s))
                      ELSE SetReg(HeapPush(m, HeapCell(h_of(m))), i.r, HeapCell(h_of(m)))
            IN  [m1 EXCEPT !.s = @ + 1]
      [] i.op = "UnifyLocalValue" ->
            IF m.mode = "Read"
            THEN [unify(m, Reg(m, i.r), HeapCell(m.s)) EXCEPT !.s = @ + 1]
            ELSE LET addr == deref(m, Reg(m, i.r))
                     h    == h_of(m)
                 IN  IF addr.t = "HeapCell" /\ addr.a < h
                     THEN [HeapPush(m, HeapAt(m, addr.a)) EXCEPT !.s = @ + 1]
                     ELSE [bind(HeapPush(m, HeapCell(h)), HeapCell(h), addr)
                             EXCEPT !.s = @ + 1]
      [] i.op = "UnifyValue" ->
            LET m1 == IF m.mode = "Read"
                      THEN unify(m, Reg(m, i.r), HeapCell(m.s))
                      ELSE HeapPush(m, store(m, Reg(m, i.r)))
            IN  [m1 EXCEPT !.s = @ + 1]
      [] i.op = "UnifyVoid" ->
            IF m.mode = "Read" THEN [m EXCEPT !.s = @ + i.n]
            ELSE LET h == h_of(m)
                 IN  [m EXCEPT !.heap = @ \o [k \in 1 .. i.n |-> HeapCell(h + k - 1)]]

(* execute_query_instr (machine_state_impl.rs 814-896) *)
execute_query_instr(m, i) ==
    CASE i.op = "GetVariable" -> SetReg(m, i.r, m.registers[i.arg])
      [] i.op = "PutConstant" -> SetReg(m, i.r, i.c)
      [] i.op = "PutList" -> SetReg(m, i.r, Lis(h_of(m)))
      [] i.op = "PutStructure" ->
            SetReg(HeapPush(m, NamedStr(i.arity, i.name)), i.r, Str(h_of(m)))
      [] i.op = "PutUnsafeValue" ->
            LET addr == deref(m, StackCell(m.e, i.n))
                h    == h_of(m)
            IN  IF is_protected(addr, m.e)
                THEN [m EXCEPT !.registers[i.arg] = store(m, addr)]
                ELSE LET m1 == bind(HeapPush(m, HeapCell(h)), HeapCell(h), addr)
                     IN  [m1 EXCEPT !.registers[i.arg] = as_addr(HeapAt(m1, h), h)]
      [] i.op = "PutValue" -> [m EXCEPT !.registers[i.arg] = Reg(m, i.r)]
      [] i.op = "PutVariable" ->
            IF i.r.k = "Perm"
            THEN LET m1 == SetReg(m, i.r, StackCell(m.e, i.r.n))
                 IN  [m1 EXCEPT !.registers[i.arg] = Reg(m1, i.r)]
            ELSE LET h == h_of(m)
                 IN  [SetReg(HeapPush(m, HeapCell(h)), i.r, HeapCell(h))
                        EXCEPT !.registers[i.arg] = HeapCell(h)]
      [] i.op = "SetConstant" -> HeapPush(m, i.c)
      [] i.op = "SetLocalValue" ->
            LET addr == deref(m, Reg(m, i.r))
                h    == h_of(m)
            IN  IF addr.t = "HeapCell" /\ addr.a < h
                THEN HeapPush(m, addr)
                ELSE bind(HeapPush(m, HeapCell(h)), HeapCell(h), addr)
      [] i.op = "SetVariable" ->
            SetReg(HeapPush(m, HeapCell(h_of(m))), i.r, HeapCell(h_of(m)))
      [] i.op = "SetValue" -> HeapPush(m, Reg(m, i.r))
      [] i.op = "SetVoid" ->
            LET h == h_of(m)
            IN  [m EXCEPT !.heap = @ \o [k \in 1 .. i.n |-> HeapCell(h + k - 1)]]

(* A Fact or Query line runs its instructions in order and stops at the    *)
(* first one that fails; p then moves to the next line.                    *)
RECURSIVE run_fact(_, _, _)
run_fact(m, is, k) ==
    IF k > Len(is) \/ m.fail THEN m ELSE run_fact(execute_fact_instr(m, is[k]), is, k + 1)

RECURSIVE run_query(_, _, _)
run_query(m, is, k) ==
    IF k > Len(is) \/ m.fail THEN m ELSE run_query(execute_query_instr(m, is[k]), is, k + 1)

----------------------------------------------------------------------------
(* Exceptions (machine_state_impl.rs 922-945)                              *)

functor1(name, arg) == <<NamedStr(1, name), arg>>
functor0(name) == <<Atom(name)>>

goto_throw(m) == [m EXCEPT !.num_of_args = 1, !.b0 = m.b, !.p = DirEntry(59)]

(* an unwinding that drops every choice point, for comparison *)
unwind_stack_all(m) == [OrTruncate([m EXCEPT !.b = 0], 0) EXCEPT !.fail = TRUE]

(* unwind_stack that lowers b and leaves the frames on the OR-stack *)
unwind_stack_lazy(m) == [m EXCEPT !.b = m.block, !.fail = TRUE]

unwind_stack(m) ==
    [OrTruncate([m EXCEPT !.b = m.block], m.block) EXCEPT !.fail = TRUE]

throw_exception(m, hcv) ==
    LET h == h_of(m)
    IN  goto_throw([m EXCEPT !.ball = [origin |-> 0, cells |-> <<>>],
                             !.registers[1] = HeapCell(h),
                             !.heap = @ \o hcv])

----------------------------------------------------------------------------
(* The call policies.  DefaultCallPolicy performs the WAM call, retry and  *)
(* trust; CallWithInferenceLimitCallPolicy does the same and then counts   *)
(* the step against the innermost limit.                                   *)

increment(m) ==
    LET cpol == m.call_policy
        n    == Len(cpol.limits)
    IN  IF cpol.kind = "Default" \/ n = 0 THEN m
        ELSE IF cpol.count = cpol.limits[n].limit
             THEN throw_exception(m, functor1("inference_limit_exceeded",
                                              Usize(cpol.limits[n].bp)))
             ELSE [m EXCEPT !.call_policy.count = @ + 1]

try_call(m, arity, idx) ==
    increment([m EXCEPT !.cp = PtrAdd(m.p, 1), !.num_of_args = arity,
                        !.b0 = m.b, !.p = DirEntry(idx)])

try_execute(m, arity, idx) ==
    increment([m EXCEPT !.num_of_args = arity, !.b0 = m.b, !.p = DirEntry(idx)])

(* The state a choice point restores: argument registers, e, cp, the       *)
(* trail unwound and cut back to the frame's tr, the heap cut back to the  *)
(* frame's h.                                                              *)
restore_from_frame(m) ==
    LET fr == OrFrame(m, m.b - 1)
        n  == Len(fr.args)
        m1 == [m EXCEPT !.registers = [i \in RegIdx |->
                                         IF 1 <= i /\ i <= n THEN fr.args[i] ELSE @[i]],
                        !.e = fr.e, !.cp = fr.cp]
        m2 == unwind_trail(m1, fr.tr, m1.tr)
        m3 == [m2 EXCEPT !.tr = fr.tr,
                         !.trail = IF fr.tr < Len(@) THEN SubSeq(@, 1, fr.tr) ELSE @]
    IN  HeapTruncate(m3, fr.h)

default_retry_me_else(m, offset) ==
    LET m1 == restore_from_frame(m)
    IN  [m1 EXCEPT !.or_stack[m.b].bp = PtrAdd(m.p, offset),
                   !.hb = h_of(m1), !.p = PtrAdd(m.p, 1)]

default_retry(m, offset) ==
    LET m1 == restore_from_frame(m)
    IN  [m1 EXCEPT !.or_stack[m.b].bp = PtrAdd(m.p, 1),
                   !.hb = h_of(m1), !.p = PtrAdd(m.p, offset)]

default_trust_me(m) ==
    LET m1 == restore_from_frame(m)
        pb == OrFrame(m, m.b - 1).b
    IN  [m1 EXCEPT !.b = pb, !.or_stack = SubSeq(@, 1, Len(@) - 1),
                   !.hb = h_of(m1), !.p = PtrAdd(m.p, 1)]

default_trust(m, offset) ==
    LET m1 == restore_from_frame(m)
        pb == OrFrame(m, m.b - 1).b
    IN  [m1 EXCEPT !.b = pb, !.or_stack = SubSeq(@, 1, Len(@) - 1),
                   !.hb = h_of(m1), !.p = PtrAdd(m.p, offset)]

retry_me_else(m, offset) == increment(default_retry_me_else(m, offset))
retry(m, offset)         == increment(default_retry(m, offset))
trust_me(m)              == increment(default_trust_me(m))
trust(m, offset)         == increment(default_trust(m, offset))

add_limit(m, limit, bp) ==
    LET cpol == m.call_policy
        n    == Len(cpol.limits)
        lim  == limit + cpol.count
    IN  IF n > 0 /\ cpol.limits[n].limit <= lim THEN m
        ELSE [m EXCEPT !.call_policy.limits = Append(@, [limit |-> lim, bp |-> bp])]

remove_limit(m, bp) ==
    LET cpol == m.call_policy
        n    == Len(cpol.limits)
    IN  IF n > 0 /\ cpol.limits[n].bp = bp
        THEN [m EXCEPT !.call_policy.limits = SubSeq(@, 1, n - 1)]
        ELSE m

----------------------------------------------------------------------------
(* The cut policies.  Both cut back to the level held in r; the            *)
(* SetupCallCleanupCutPolicy then calls run_cleaners_without_handling/0    *)
(* while cleaners are pending.                                             *)

cut_to(m, r) ==
    LET v == Reg(m, r)
    IN  IF v.t = "Usize"
        THEN LET m1 == IF m.b > v.a
                       THEN LET m2 == tidy_trail([m EXCEPT !.b = v.a])
                            IN  OrTruncate(m2, m2.b)
                       ELSE m
             IN  [m1 EXCEPT !.p = PtrAdd(m.p, 1)]
        ELSE [m EXCEPT !.fail = TRUE]

default_cut(m, r) == cut_to(m, r)

sgc_cut(m, r) ==
    LET m1 == cut_to(m, r)
    IN  IF m1.fail \/ m.cut_policy.cont_pts = <<>> THEN m1
        ELSE [m1 EXCEPT !.cp = m1.p, !.num_of_args = 0, !.b0 = m1.b,
                        !.p = DirEntry(370)]

policy_cut(m, r) ==
    IF m.cut_policy.kind = "Default" THEN default_cut(m, r) ELSE sgc_cut(m, r)

----------------------------------------------------------------------------
(* The term copier (copier.rs 18-106).  The target is the heap: source and *)
(* threshold are heap addresses, push appends to the heap.  ctrail is the  *)
(* copier's own trail of overwritten cells, restored at the end.           *)

(* a copier that leaves the cells it overwrote as they are *)
copier_no_restore(m, ctrail, i) == m

(* a copier that restores the cells of the heap only *)
RECURSIVE copier_restore_heap(_, _, _)
copier_restore_heap(m, ctrail, i) ==
    IF i > Len(ctrail) THEN m
    ELSE copier_restore_heap(IF ctrail[i].r.t = "HeapCell"
                             THEN HeapPut(m, ctrail[i].r.a, ctrail[i].v) ELSE m,
                             ctrail, i + 1)

RECURSIVE copier_restore(_, _, _)
copier_restore(m, ctrail, i) ==
    IF i > Len(ctrail) THEN m
    ELSE LET r   == ctrail[i].r
             hcv == ctrail[i].v
         IN  copier_restore(IF r.t = "HeapCell" THEN HeapPut(m, r.a, hcv)
                            ELSE StackPut(m, r.a, r.b, as_addr(hcv, 0)),
                            ctrail, i + 1)

RECURSIVE push_cells(_, _, _)
push_cells(m, from, n) ==
    IF n = 0 THEN m ELSE push_cells(HeapPush(m, HeapAt(m, from)), from + 1, n - 1)

MaxScanSteps == 24

(* the scan loop, n turns of it at most: a loop that is still running     *)
(* after n turns leaves the machine "looping"                              *)
RECURSIVE copier_loop(_, _, _, _, _)
copier_loop(m, scan, old_h, ctrail, n) ==
    IF scan >= h_of(m) THEN copier_restore(m, ctrail, 1)
    ELSE IF n = 0 THEN [m EXCEPT !.status = "looping"]
    ELSE
    LET c == HeapAt(m, scan)
    IN  CASE c.t = "NamedStr" -> copier_loop(m, scan + 1, old_h, ctrail, n - 1)
          [] c.t = "Lis" ->
               LET m1 == HeapPut(m, scan, Lis(h_of(m)))
               IN  copier_loop(push_cells(m1, c.a, 2), scan + 1, old_h, ctrail, n - 1)
          [] is_ref(c) ->
               LET rd == store(m, deref(m, c))
               IN  IF rd.t = "HeapCell" /\ rd.a >= old_h
                   THEN copier_loop(HeapPut(m, scan, rd), scan + 1, old_h, ctrail, n - 1)
                   ELSE IF c = rd
                   THEN LET m1 == HeapPut(m, scan, HeapCell(scan))
                            m2 == SetRef(m1, c, HeapCell(scan))
                        IN  copier_loop(m2, scan + 1, old_h,
                                        Append(ctrail, [r |-> c, v |-> c]), n - 1)
                   ELSE copier_loop(HeapPut(m, scan, rd), scan, old_h, ctrail, n - 1)
          [] c.t = "Str" ->
               LET hd == HeapAt(m, c.a)
               IN  IF hd.t = "NamedStr"
                   THEN LET threshold == h_of(m)
                            m1 == HeapPut(HeapPut(m, scan, Str(threshold)),
                                          c.a, Str(threshold))
                            m2 == HeapPush(m1, hd)
                        IN  copier_loop(push_cells(m2, c.a + 1, hd.a), scan + 1, old_h,
                                        Append(ctrail, [r |-> HeapCell(c.a), v |-> hd]), n - 1)
                   ELSE IF hd.t = "Str"
                   THEN copier_loop(HeapPut(m, scan, Str(hd.a)), scan + 1, old_h, ctrail, n - 1)
                   ELSE copier_loop(m, scan + 1, old_h, ctrail, n - 1)
          [] OTHER -> copier_loop(m, scan + 1, old_h, ctrail, n - 1)

copier_scan(m, scan, old_h, ctrail) == copier_loop(m, scan, old_h, ctrail, MaxScanSteps)

copier_duplicate_term(m, a) ==
    LET old_h == h_of(m)
    IN  copier_scan(HeapPush(m, a), old_h, old_h, <<>>)

(* MachineState::duplicate_term (machine_state_impl.rs 1712-1726) *)
duplicate_term(m) ==
    LET old_h == h_of(m)
        a1    == m.registers[1]
        a2    == m.registers[2]
    IN  unify(copier_duplicate_term(m, a1), HeapCell(old_h), a2)

(* DuplicateBallTerm: the same scan with every pushed cell going to the    *)
(* ball instead of the heap; the ball's cells are addressed from the heap  *)
(* boundary on, and the ball holds the last thrown term.                   *)
ball_of(m1, boundary) ==
    [HeapTruncate(m1, boundary) EXCEPT
        !.ball.cells = SubSeq(m1.heap, boundary + 1, Len(m1.heap))]

duplicate_ball_term(m, a) == ball_of(copier_duplicate_term(m, a), h_of(m))

RECURSIVE align_ball(_, _)
align_ball(cells, diff) ==
    IF cells = <<>> THEN <<>>
    ELSE LET c == Head(cells)
         IN  <<IF c.t \in {"Lis", "HeapCell", "Str"} THEN [c EXCEPT !.a = @ - diff] ELSE c>>
             \o align_ball(Tail(cells), diff)

(* a copy that puts the empty list in the place of the ball, for comparison *)
copy_nil_to_heap(m) == [m EXCEPT !.heap = Append(@, EmptyList)]

(* the addresses are usize: a - diff below zero is an arithmetic overflow   *)
(* and stops the machine                                                   *)
copy_and_align_ball_to_heap(m) ==
    LET diff == IF m.ball.origin > h_of(m) THEN m.ball.origin - h_of(m)
                ELSE h_of(m) - m.ball.origin
    IN  IF \E k \in DOMAIN m.ball.cells :
              m.ball.cells[k].t \in {"Lis", "HeapCell", "Str"} /\ m.ball.cells[k].a < diff
        THEN [m EXCEPT !.status = "panic"]
        ELSE [m EXCEPT !.heap = @ \o align_ball(m.ball.cells, diff)]


----------------------------------------------------------------------------
(* call/N (machine_state_impl.rs 898-990).  setup_call_n returns the       *)
(* machine together with the predicate key it found (ok = FALSE for        *)
(* None).  setup_call_n_regs is the set of register indices the function   *)
(* reads or writes.                                                        *)

setup_call_n(m, arity) ==
    LET addr == store(m, deref(m, m.registers[arity]))
        none(m1) == [m |-> m1, ok |-> FALSE, name |-> "", arity |-> 0]
    IN  CASE addr.t = "Str" ->
               LET result == HeapAt(m, addr.a)
                   narity == result.a
               IN  IF result.t = "NamedStr"
                   THEN IF narity + arity > 63
                        THEN none(throw_exception(m, functor1("representation_error",
                                                             Atom("exceeds_max_arity"))))
                        ELSE LET shifted == [i \in RegIdx |->
                                    IF narity + 1 <= i /\ i <= narity + arity - 1
                                    THEN m.registers[i - narity] ELSE m.registers[i]]
                                 loaded  == [i \in RegIdx |->
                                    IF 1 <= i /\ i <= narity
                                    THEN as_addr(HeapAt(m, addr.a + i), addr.a + i)
                                    ELSE shifted[i]]
                             IN  [m |-> [m EXCEPT !.registers = loaded], ok |-> TRUE,
                                  name |-> result.s, arity |-> arity + narity - 1]
                   ELSE none([m EXCEPT !.fail = TRUE])
          [] addr.t = "Atom" ->
               [m |-> m, ok |-> TRUE, name |-> addr.s, arity |-> arity - 1]
          [] is_ref(addr) -> none(throw_exception(m, functor0("instantiation_error")))
          [] OTHER -> none(throw_exception(m, <<NamedStr(2, "type_error"),
                                                Atom("callable"), addr>>))

setup_call_n_regs(m, arity) ==
    LET addr == store(m, deref(m, m.registers[arity]))
    IN  {arity} \cup
        IF addr.t = "Str" /\ HeapAt(m, addr.a).t = "NamedStr"
        THEN LET narity == HeapAt(m, addr.a).a
             IN  IF narity + arity > 63 THEN {1}
                 ELSE (1 .. (arity - 1)) \cup ((narity + 1) .. (narity + arity - 1))
                      \cup (1 .. narity)
        ELSE IF addr.t = "Atom" THEN {} ELSE {1}

----------------------------------------------------------------------------
(* Control, choice and cut instructions (machine_state_impl.rs 1816-2029)  *)

Allocate(n)                == [op |-> "Allocate", n |-> n]
Deallocate                 == [op |-> "Deallocate"]
Proceed                    == [op |-> "Proceed"]
CallClause(ct, arity, lco) == [op |-> "CallClause", ct |-> ct, arity |-> arity, lco |-> lco]
CheckCpExecute             == [op |-> "CheckCpExecute"]
GetCleanerCall             == [op |-> "GetCleanerCall"]
Goto(q, arity, lco)        == [op |-> "Goto", q |-> q, arity |-> arity, lco |-> lco]
JmpBy(arity, offset, lco)  == [op |-> "JmpBy", arity |-> arity, offset |-> offset, lco |-> lco]
TryMeElse(offset)          == [op |-> "TryMeElse", offset |-> offset]
RetryMeElse(offset)        == [op |-> "RetryMeElse", offset |-> offset]
TrustMe                    == [op |-> "TrustMe"]
Try(l)                     == [op |-> "Try", offset |-> l]
Retry(l)                   == [op |-> "Retry", offset |-> l]
Trust(l)                   == [op |-> "Trust", offset |-> l]
NeckCut                    == [op |-> "NeckCut"]
GetLevel(r)                == [op |-> "GetLevel", r |-> r]
Cut(r)                     == [op |-> "Cut", r |-> r]

(* ClauseType *)
Named(name, arity) == [ct |-> "Named", name |-> name, arity |-> arity]
CallN              == [ct |-> "CallN", name |-> "call", arity |-> 0]
Display            == [ct |-> "Display", name |-> "display", arity |-> 1]
DuplicateTermCT    == [ct |-> "DuplicateTerm", name |-> "duplicate_term", arity |-> 2]
FunctorCT          == [ct |-> "Functor", name |-> "functor", arity |-> 3]

(* the macros of builtins.rs *)
call_n(n)             == CallClause(CallN, n, FALSE)
execute_n(n)          == CallClause(CallN, n, TRUE)
goto_call(q, ar)      == Goto(q, ar, FALSE)
goto_execute(q, ar)   == Goto(q, ar, TRUE)
jmp_call(ar, off)     == JmpBy(ar, off, FALSE)
jmp_execute(ar, off)  == JmpBy(ar, off, TRUE)

(* AndStack::push and AndStack::resize: a new frame's cells are unbound     *)
(* stack variables; resize only ever adds cells.                            *)
and_stack_push(m, gi, n) ==
    LET fr == Len(m.and_stack)
    IN  [m EXCEPT !.and_stack = Append(@, [global_index |-> gi, e |-> m.e, cp |-> m.cp,
                                           perms |-> [i \in 1 .. n |-> StackCell(fr, i)]])]

and_stack_resize(m, fr, n) ==
    LET old == Frame(m, fr).perms
    IN  IF Len(old) >= n THEN m
        ELSE [m EXCEPT !.and_stack[fr + 1].perms =
                 [i \in 1 .. n |-> IF i <= Len(old) THEN old[i] ELSE StackCell(fr, i)]]

(* OrStack::push followed by the copy of the argument registers *)
or_stack_push(m, bp) ==
    LET gi == next_global_index(m)
    IN  [m EXCEPT !.or_stack = Append(@, [global_index |-> gi, e |-> m.e, cp |-> m.cp,
                                          b |-> m.b, bp |-> bp, tr |-> m.tr,
                                          h |-> h_of(m), b0 |-> m.b0,
                                          args |-> [i \in 1 .. m.num_of_args |->
                                                       m.registers[i]]]),
                  !.b = Len(m.or_stack) + 1,
                  !.hb = h_of(m)]

return_from_clause(m, lco) ==
    IF lco /\ m.p.k = "DirEntry" THEN [m EXCEPT !.p = m.cp] ELSE [m EXCEPT !.p = PtrAdd(m.p, 1)]

----------------------------------------------------------------------------
(* The loaded program.  It is stored behind the builtins, from address     *)
(* ProgramBase on.                                                         *)
(*                                                                         *)
(*   a(Z) :- h(Z).          h(Z) :- f(Y), c(Z, Y).                         *)
(*   a(_).                  f(1) :- !.        c(1, 2).                     *)
(*                          f(2).             c(2, _).                     *)
(*   m(1).                  t :- m(_), throw(g(b)).                        *)
(*   m(2).                  o :- m(_), catch(t, _, true).                  *)

ProgramBase == 487

code_program ==
    << TryMeElse(2),                                        \* 487  a/1
       CallClause(Named("h", 1), 1, TRUE),                  \* 488
       TrustMe,                                             \* 489
       Proceed,                                             \* 490
       Allocate(2),                                         \* 491  h/1
       fact(<<get_var_in_fact(perm_v(1), 1)>>),             \* 492
       query(<<put_var(perm_v(2), 1)>>),                    \* 493
       CallClause(Named("f", 1), 1, FALSE),                 \* 494
       query(<<put_value(perm_v(1), 1),
               put_unsafe_value(2, 2)>>),                   \* 495
       Deallocate,                                          \* 496
       CallClause(Named("c", 2), 2, TRUE),                  \* 497
       TryMeElse(4),                                        \* 498  f/1
       fact(<<get_constant(Integer(1), temp_v(1))>>),       \* 499
       NeckCut,                                             \* 500
       Proceed,                                             \* 501
       TrustMe,                                             \* 502
       fact(<<get_constant(Integer(2), temp_v(1))>>),       \* 503
       Proceed,                                             \* 504
       TryMeElse(3),                                        \* 505  c/2
       fact(<<get_constant(Integer(1), temp_v(1)),
              get_constant(Integer(2), temp_v(2))>>),       \* 506
       Proceed,                                             \* 507
       TrustMe,                                             \* 508
       fact(<<get_constant(Integer(2), temp_v(1))>>),       \* 509
       Proceed,                                             \* 510
       TryMeElse(3),                                        \* 511  m/1
       fact(<<get_constant(Integer(1), temp_v(1))>>),       \* 512
       Proceed,                                             \* 513
       TrustMe,                                             \* 514
       fact(<<get_constant(Integer(2), temp_v(1))>>),       \* 515
       Proceed,                                             \* 516
       Allocate(0),                                         \* 517  t/0
       query(<<put_var(temp_v(1), 1)>>),                    \* 518
       CallClause(Named("m", 1), 1, FALSE),                 \* 519
       query(<<put_structure("g", 1, temp_v(1)),
               set_constant(Atom("b"))>>),                  \* 520
       Deallocate,                                          \* 521
       CallClause(Named("throw", 1), 1, TRUE),              \* 522
       Allocate(0),                                         \* 523  o/0
       query(<<put_var(temp_v(1), 1)>>),                    \* 524
       CallClause(Named("m", 1), 1, FALSE),                 \* 525
       query(<<put_constant(Atom("t"), temp_v(1)),
               put_var(temp_v(2), 2),
               put_constant(Atom("true"), temp_v(3))>>),    \* 526
       Deallocate,                                          \* 527
       CallClause(Named("catch", 3), 3, TRUE) >>            \* 528

user_code_dir ==
    { <<"a", 1, 487>>, <<"h", 1, 491>>, <<"f", 1, 498>>, <<"c", 2, 505>>,
      <<"m", 1, 511>>, <<"t", 0, 517>>, <<"o", 0, 523>> }

----------------------------------------------------------------------------
(* The code directory: build_code_and_op_dirs (builtins.rs 650-768) for    *)
(* the builtins, followed by the predicates of the loaded program.         *)

builtin_code_dir ==
    { <<"false", 0, 61>>, <<"\\+", 1, 62>>, <<"duplicate_term", 2, 71>>,
      <<"catch", 3, 5>>, <<"throw", 1, 59>>, <<"=", 2, 73>>, <<"true", 0, 75>>,
      <<"functor", 3, 162>>, <<"integer", 1, 163>>, <<"arg", 3, 166>>,
      <<"display", 1, 208>>, <<"=..", 2, 224>>, <<"length", 2, 277>>, <<"setup_call_cleanup", 3, 310>>,
      <<"call_with_inference_limit", 3, 409>> }

code_dir == builtin_code_dir \cup user_code_dir

code_dir_get(name, arity) ==
    IF name = "call" /\ arity \in 0 .. 62 THEN 0
    ELSE IF \E d \in code_dir : d[1] = name /\ d[2] = arity
         THEN (CHOOSE d \in code_dir : d[1] = name /\ d[2] = arity)[3]
         ELSE -1

(* the jump to the entry idx of the code directory, failure without one *)
call_at(m, arity, idx, lco) ==
    IF idx < 0 THEN [m EXCEPT !.fail = TRUE]
    ELSE IF lco THEN try_execute(m, arity, idx) ELSE try_call(m, arity, idx)

(* call/N after setup_call_n: r is what setup_call_n returned *)
call_n_at(r, lco) ==
    IF ~r.ok THEN r.m
    ELSE call_at(r.m, r.arity, code_dir_get(r.name, r.arity), lco)

(* try_functor (machine_state_impl.rs 1566-1633); the answer is the        *)
(* machine with ok = FALSE and the error term for Err                      *)
Done(m)        == [ok |-> TRUE, m |-> m, err |-> <<>>]
Failed(m, hcv) == [ok |-> FALSE, m |-> m, err |-> hcv]

(* the heap with the header, or the atom for arity 0, and arity fresh cells *)
RECURSIVE push_fresh(_, _)
push_fresh(m, n) ==
    IF n = 0 THEN m ELSE push_fresh(HeapPush(m, HeapCell(h_of(m))), n - 1)

(* a skeleton whose arguments are all the one cell behind the header *)
functor_skeleton_shared(m, name, arity) ==
    [m EXCEPT !.heap = @ \o <<IF arity > 0 THEN NamedStr(arity, name) ELSE Atom(name)>>
                         \o [k \in 1 .. arity |-> HeapCell(h_of(m) + 1)]]

functor_skeleton(m, name, arity) ==
    push_fresh(HeapPush(m, IF arity > 0 THEN NamedStr(arity, name) ELSE Atom(name)),
               arity)

functor_unify_arity(m, arity) ==
    IF m.fail THEN m ELSE unify(m, m.registers[3], arity)

try_functor(m) ==
    LET a1 == store(m, deref(m, m.registers[1]))
    IN  CASE a1.t = "Str" ->
               IF HeapAt(m, a1.a).t = "NamedStr"
               THEN Done(functor_unify_arity(
                             unify(m, m.registers[2], Atom(HeapAt(m, a1.a).s)),
                             Integer(HeapAt(m, a1.a).a)))
               ELSE Done([m EXCEPT !.fail = TRUE])
          [] is_ref(a1) ->
               LET name  == store(m, deref(m, m.registers[2]))
                   arity == store(m, deref(m, m.registers[3]))
               IN  IF name.t = "Atom" /\ arity.t = "Integer"
                   THEN IF arity.a < 0 THEN Done([m EXCEPT !.fail = TRUE])
                        ELSE Done(unify(functor_skeleton(m, name.s, arity.a),
                                        a1, Str(h_of(m))))
                   ELSE Failed(m, functor0("instantiation_error"))
          [] OTHER ->
               Done(functor_unify_arity(unify(m, a1, m.registers[2]), Integer(0)))

(* try_or_fail! on the answer of a builtin, then return_from_clause! *)
return_or_throw(r, lco) ==
    IF r.ok THEN return_from_clause(r.m, lco) ELSE throw_exception(r.m, r.err)

(* try_call_clause of the call policies *)
call_clause(m, ct, arity, lco) ==
    CASE ct.ct = "Named" -> call_at(m, arity, code_dir_get(ct.name, ct.arity), lco)
      [] ct.ct = "CallN" -> call_n_at(setup_call_n(m, arity), lco)
      [] ct.ct = "Display" ->
           return_from_clause([m EXCEPT !.output =
                                  Append(@, store(m, deref(m, m.registers[1])))], lco)
      [] ct.ct = "DuplicateTerm" ->
           return_from_clause(duplicate_term(m), lco)
      [] ct.ct = "Functor" -> return_or_throw(try_functor(m), lco)

(* the registers after the goal in A1 has moved behind the other arguments *)
rotate_goal(m, arity) ==
    [m EXCEPT !.registers =
        [i \in RegIdx |->
            IF 1 <= i /\ i <= arity - 2 THEN m.registers[i + 1]
            ELSE IF i = arity - 1 /\ arity > 1 THEN m.registers[1]
            ELSE m.registers[i]]]

internal_call_n_at(r) ==
    IF ~r.ok THEN [r.m EXCEPT !.fail = TRUE]
    ELSE call_at(r.m, r.arity, code_dir_get(r.name, r.arity), TRUE)

handle_internal_call_n(m) ==
    IF m.num_of_args + 1 > 1
    THEN internal_call_n_at(setup_call_n(rotate_goal(m, m.num_of_args + 1), m.num_of_args))
    ELSE [rotate_goal(m, m.num_of_args + 1) EXCEPT !.fail = TRUE]

goto_ptr(m, q, arity, lco) ==
    [m EXCEPT !.cp = IF lco THEN @ ELSE PtrAdd(m.p, 1),
              !.num_of_args = arity, !.b0 = m.b, !.p = q]

(* A cleaner that is dropped instead of being called *)
get_cleaner_call_drop(m) ==
    LET cps == m.cut_policy.cont_pts
    IN  IF cps = <<>> THEN [m EXCEPT !.fail = TRUE]
        ELSE [m EXCEPT !.p = PtrAdd(m.p, 1), !.fail = TRUE,
                       !.cut_policy.cont_pts = SubSeq(cps, 1, Len(cps) - 1)]

(* ControlInstruction::GetCleanerCall *)
get_cleaner_call(m) ==
    LET dest == m.registers[1]
        cps  == m.cut_policy.cont_pts
        n    == Len(cps)
    IN  IF m.cut_policy.kind = "Default" THEN [m EXCEPT !.status = "panic"]
        ELSE IF n = 0 THEN [m EXCEPT !.fail = TRUE]
        ELSE IF m.b <= cps[n].b + 1
             THEN IF is_ref(dest)
                  THEN bind([m EXCEPT !.p = PtrAdd(m.p, 1),
                                      !.cut_policy.cont_pts = SubSeq(cps, 1, n - 1),
                                      !.block = cps[n].block], dest, cps[n].addr)
                  ELSE [m EXCEPT !.p = PtrAdd(m.p, 1), !.fail = TRUE,
                                 !.cut_policy.cont_pts = SubSeq(cps, 1, n - 1),
                                 !.block = cps[n].block]
             ELSE [m EXCEPT !.p = PtrAdd(m.p, 1), !.fail = TRUE]

(* Allocate that takes the frame e + 1 whenever there is one *)
allocate_eager(m, num_cells) ==
    LET gi     == next_global_index(m)
        m1     == [m EXCEPT !.p = PtrAdd(m.p, 1)]
        index  == m.e + 1
    IN  IF m.e + 1 < Len(m.and_stack)
        THEN [and_stack_resize(
                 [m1 EXCEPT !.and_stack[index + 1].e = m.e,
                            !.and_stack[index + 1].cp = m.cp,
                            !.and_stack[index + 1].global_index = gi],
                 index, num_cells)
              EXCEPT !.e = index]
        ELSE [and_stack_push(m1, gi, num_cells) EXCEPT !.e = Len(m.and_stack)]

(* ControlInstruction::Allocate (machine_state_impl.rs 1822-1850) *)
allocate(m, num_cells) ==
    LET gi     == next_global_index(m)
        m1     == [m EXCEPT !.p = PtrAdd(m.p, 1)]
        and_gi == Frame(m, m.e).global_index
        or_gi  == IF Len(m.or_stack) > 0
                  THEN m.or_stack[Len(m.or_stack)].global_index ELSE 0
        index  == m.e + 1
    IN  IF m.e + 1 < Len(m.and_stack) /\ and_gi > or_gi
        THEN [and_stack_resize(
                 [m1 EXCEPT !.and_stack[index + 1].e = m.e,
                            !.and_stack[index + 1].cp = m.cp,
                            !.and_stack[index + 1].global_index = gi],
                 index, num_cells)
              EXCEPT !.e = index]
        ELSE [and_stack_push(m1, gi, num_cells) EXCEPT !.e = Len(m.and_stack)]

execute_ctrl_instr(m, i) ==
    CASE i.op = "Allocate" -> allocate(m, i.n)
      [] i.op = "CallClause" -> call_clause(m, i.ct, i.arity, i.lco)
      [] i.op = "CheckCpExecute" ->
           LET a == store(m, deref(m, m.registers[2]))
           IN  IF a.t = "Usize" /\ m.b > a.a + 1
               THEN [m EXCEPT !.p = m.cp]
               ELSE [m EXCEPT !.num_of_args = 2, !.b0 = m.b, !.p = DirEntry(382)]
      [] i.op = "Deallocate" ->
           [m EXCEPT !.cp = Frame(m, m.e).cp, !.e = Frame(m, m.e).e,
                     !.p = PtrAdd(m.p, 1)]
      [] i.op = "GetCleanerCall" -> get_cleaner_call(m)
      [] i.op = "Goto" -> goto_ptr(m, DirEntry(i.q), i.arity, i.lco)
      [] i.op = "JmpBy" ->
           [m EXCEPT !.cp = IF i.lco THEN @ ELSE PtrAdd(m.p, 1),
                     !.num_of_args = i.arity, !.b0 = m.b, !.p = PtrAdd(m.p, i.offset)]
      [] i.op = "Proceed" -> [m EXCEPT !.p = m.cp]

execute_indexed_choice_instr(m, i) ==
    CASE i.op = "Try" ->
           [or_stack_push(m, PtrAdd(m.p, 1)) EXCEPT !.p = PtrAdd(m.p, i.offset)]
      [] i.op = "Retry" -> retry(m, i.offset)
      [] i.op = "Trust" -> trust(m, i.offset)

(* execute_indexing_instr (machine_state_impl.rs 751-812); the hash map of *)
(* SwitchOnConstant and SwitchOnStructure is a set of <<key, offset>>      *)
(* pairs with one pair per key                                             *)
SwitchOnTerm(v, c, l, st) == [op |-> "SwitchOnTerm", v |-> v, c |-> c, l |-> l, st |-> st]
SwitchOnConstant(n, hm)   == [op |-> "SwitchOnConstant", n |-> n, hm |-> hm]
SwitchOnStructure(n, hm)  == [op |-> "SwitchOnStructure", n |-> n, hm |-> hm]

(* HashMap::get, with 0 for None *)
hm_get(hm, key) ==
    IF \E pr \in hm : pr[1] = key THEN (CHOOSE pr \in hm : pr[1] = key)[2] ELSE 0

switch_offset(i, addr) ==
    CASE is_ref(addr)   -> i.v
      [] is_con(addr)   -> i.c
      [] addr.t = "Lis" -> i.l
      [] addr.t = "Str" -> i.st

(* an indexing instruction that takes the offset 0 for a jump to itself *)
execute_indexing_instr_stay(m, i) ==
    LET addr   == store(m, deref(m, m.registers[1]))
        offset == CASE i.op = "SwitchOnTerm" -> switch_offset(i, addr)
                    [] i.op = "SwitchOnConstant" ->
                         IF is_con(addr) THEN hm_get(i.hm, addr) ELSE 0
                    [] i.op = "SwitchOnStructure" ->
                         IF addr.t = "Str" /\ HeapAt(m, addr.a).t = "NamedStr"
                         THEN hm_get(i.hm, <<HeapAt(m, addr.a).s, HeapAt(m, addr.a).a>>)
                         ELSE 0
    IN  [m EXCEPT !.p = PtrAdd(m.p, offset)]

execute_indexing_instr(m, i) ==
    LET addr   == store(m, deref(m, m.registers[1]))
        offset == CASE i.op = "SwitchOnTerm" -> switch_offset(i, addr)
                    [] i.op = "SwitchOnConstant" ->
                         IF is_con(addr) THEN hm_get(i.hm, addr) ELSE 0
                    [] i.op = "SwitchOnStructure" ->
                         IF addr.t = "Str" /\ HeapAt(m, addr.a).t = "NamedStr"
                         THEN hm_get(i.hm, <<HeapAt(m, addr.a).s, HeapAt(m, addr.a).a>>)
                         ELSE 0
    IN  IF offset = 0 THEN [m EXCEPT !.fail = TRUE]
        ELSE [m EXCEPT !.p = PtrAdd(m.p, offset)]

execute_choice_instr(m, i) ==
    CASE i.op = "TryMeElse" ->
           [or_stack_push(m, PtrAdd(m.p, i.offset)) EXCEPT !.p = PtrAdd(m.p, 1)]
      [] i.op = "RetryMeElse" -> retry_me_else(m, i.offset)
      [] i.op = "TrustMe" -> trust_me(m)

(* a NeckCut that lowers b and leaves the frames on the OR-stack *)
execute_cut_instr_lazy(m, i) ==
    CASE i.op = "NeckCut" ->
           [(IF m.b > m.b0 THEN tidy_trail([m EXCEPT !.b = m.b0]) ELSE m)
               EXCEPT !.p = PtrAdd(m.p, 1)]
      [] i.op = "GetLevel" -> [SetReg(m, i.r, Usize(m.b0)) EXCEPT !.p = PtrAdd(m.p, 1)]
      [] i.op = "Cut" -> policy_cut(m, i.r)

execute_cut_instr(m, i) ==
    CASE i.op = "NeckCut" ->
           LET m1 == IF m.b > m.b0
                     THEN LET m2 == tidy_trail([m EXCEPT !.b = m.b0])
                          IN  OrTruncate(m2, m2.b)
                     ELSE m
           IN  [m1 EXCEPT !.p = PtrAdd(m.p, 1)]
      [] i.op = "GetLevel" -> [SetReg(m, i.r, Usize(m.b0)) EXCEPT !.p = PtrAdd(m.p, 1)]
      [] i.op = "Cut" -> policy_cut(m, i.r)

----------------------------------------------------------------------------
(* Builtin instructions (machine_state_impl.rs 1308-1564)                  *)

DefaultRetryMeElse(o)  == [op |-> "DefaultRetryMeElse", offset |-> o]
DefaultSetCutPoint(r)  == [op |-> "DefaultSetCutPoint", r |-> r]
DefaultTrustMe         == [op |-> "DefaultTrustMe"]
EraseBall              == [op |-> "EraseBall"]
GetCurrentBlock        == [op |-> "GetCurrentBlock"]
GetBall                == [op |-> "GetBall"]
GetCutPoint(r)         == [op |-> "GetCutPoint", r |-> r]
InferenceLevel(r1, r2) == [op |-> "InferenceLevel", r1 |-> r1, r2 |-> r2]
InstallCleaner         == [op |-> "InstallCleaner"]
InstallInferenceCounter(r1, r2, r3) ==
    [op |-> "InstallInferenceCounter", r1 |-> r1, r2 |-> r2, r3 |-> r3]
RemoveCallPolicyCheck  == [op |-> "RemoveCallPolicyCheck"]
RemoveInferenceCounter(r1, r2) == [op |-> "RemoveInferenceCounter", r1 |-> r1, r2 |-> r2]
RestoreCutPolicy       == [op |-> "RestoreCutPolicy"]
SetBall                == [op |-> "SetBall"]
SetCutPoint(r)         == [op |-> "SetCutPoint", r |-> r]
CleanUpBlock           == [op |-> "CleanUpBlock"]
InstallNewBlock        == [op |-> "InstallNewBlock"]
ResetBlock             == [op |-> "ResetBlock"]
UnwindStack            == [op |-> "UnwindStack"]
InternalCallN          == [op |-> "InternalCallN"]
Fail                   == [op |-> "Fail"]
Succeed                == [op |-> "Succeed"]
Unify                  == [op |-> "Unify"]
is_var(r)              == [op |-> "CallInlined", inlined |-> "IsVar", r |-> r]
is_integer(r)          == [op |-> "CallInlined", inlined |-> "IsInteger", r |-> r]
is_atomic(r)           == [op |-> "CallInlined", inlined |-> "IsAtomic", r |-> r]
GetArg(lco)            == [op |-> "GetArg", lco |-> lco]
get_arg_execute        == GetArg(TRUE)
get_arg_call           == GetArg(FALSE)
functor_call           == CallClause(FunctorCT, 3, FALSE)
functor_execute        == CallClause(FunctorCT, 3, TRUE)

(* execute_inlined (machine_state_impl.rs 1220-1306), the type tests *)
execute_inlined(m, i) ==
    LET d == store(m, deref(m, Reg(m, i.r)))
    IN  IF \/ i.inlined = "IsVar" /\ is_ref(d)
           \/ i.inlined = "IsAtomic" /\ is_con(d)
           \/ i.inlined = "IsInteger" /\ d.t = "Integer"
        THEN [m EXCEPT !.p = PtrAdd(m.p, 1)]
        ELSE [m EXCEPT !.fail = TRUE]

(* try_get_arg without the test of the index *)
get_arg_at_any(m, i, o) == unify(m, m.registers[3], HeapCell(o + i))

(* try_get_arg (machine_state_impl.rs 1038-1065) *)
get_arg_at(m, i, o) ==
    IF HeapAt(m, o).t = "NamedStr" /\ 1 <= i /\ i <= HeapAt(m, o).a
    THEN unify(m, m.registers[3], HeapCell(o + i))
    ELSE [m EXCEPT !.fail = TRUE]

try_get_arg(m) ==
    LET a1 == store(m, deref(m, m.registers[1]))
        a2 == store(m, deref(m, m.registers[2]))
    IN  IF a1.t = "Integer"
        THEN IF a2.t = "Str" THEN Done(get_arg_at(m, a1.a, a2.a))
             ELSE Failed(m, functor1("type_error", Atom("compound_expected")))
        ELSE Done(m)

(* BuiltInInstruction::GetArg: p moves before try_or_fail! looks at the    *)
(* answer                                                                  *)
get_arg_return(r, lco) ==
    IF r.ok THEN [r.m EXCEPT !.p = IF lco THEN r.m.cp ELSE PtrAdd(r.m.p, 1)]
    ELSE throw_exception(r.m, r.err)

get_arg(m, lco) == get_arg_return(try_get_arg(m), lco)

(* a ResetBlock that checks its argument and leaves the block alone *)
reset_block_skip(m, addr) ==
    LET v == store(m, addr)
    IN  IF v.t = "Usize" THEN [m EXCEPT !.p = PtrAdd(m.p, 1)]
        ELSE [m EXCEPT !.fail = TRUE]

reset_block(m, addr) ==
    LET v == store(m, addr)
    IN  IF v.t = "Usize" THEN [m EXCEPT !.block = v.a, !.p = PtrAdd(m.p, 1)]
        ELSE [m EXCEPT !.fail = TRUE]

CwilPolicy == [kind |-> "CallWithInferenceLimit", limits |-> <<>>, count |-> 0]
SgcPolicy  == [kind |-> "SetupCallCleanup", cont_pts |-> <<>>]

(* The limit is counted but never installed *)
install_inference_counter_skip(m, i) ==
    SetReg([m EXCEPT !.p = PtrAdd(m.p, 1),
                     !.call_policy = IF @.kind = "Default" THEN CwilPolicy ELSE @],
           i.r3, Integer(m.call_policy.count))

(* the count after add_limit or remove_limit, written to r *)
write_count(m2, r) == SetReg(m2, r, Integer(m2.call_policy.count))

(* BuiltInInstruction::InstallInferenceCounter *)
install_inference_counter_at(m1, i, a1, a2) ==
    IF a1.t = "Usize" /\ a2.t = "Integer"
    THEN write_count(add_limit(m1, a2.a, a1.a), i.r3)
    ELSE throw_exception(m1, functor1("type_error", Atom("integer_expected")))

install_inference_counter(m, i) ==
    install_inference_counter_at(
        [m EXCEPT !.p = PtrAdd(m.p, 1),
                  !.call_policy = IF @.kind = "Default" THEN CwilPolicy ELSE @],
        i, store(m, deref(m, Reg(m, i.r1))), store(m, deref(m, Reg(m, i.r2))))

(* The call policy is never given back *)
remove_call_policy_check_keep(m) == [m EXCEPT !.p = PtrAdd(m.p, 1)]

(* BuiltInInstruction::RemoveCallPolicyCheck *)
remove_call_policy_check(m) ==
    LET a1 == store(m, deref(m, m.registers[1]))
    IN  IF m.call_policy.kind = "Default" \/ a1.t # "Usize"
        THEN [m EXCEPT !.status = "panic"]
        ELSE IF m.call_policy.limits = <<>> /\ a1.a = m.b
             THEN [m EXCEPT !.p = PtrAdd(m.p, 1), !.call_policy = DefaultCallPolicy]
             ELSE [m EXCEPT !.p = PtrAdd(m.p, 1)]

(* BuiltInInstruction::RemoveInferenceCounter *)
remove_inference_counter(m, i) ==
    LET a1 == store(m, deref(m, Reg(m, i.r1)))
    IN  IF m.call_policy.kind = "Default" \/ a1.t # "Usize"
        THEN [m EXCEPT !.status = "panic"]
        ELSE write_count([remove_limit(m, a1.a) EXCEPT !.p = PtrAdd(m.p, 1)], i.r2)

(* BuiltInInstruction::RestoreCutPolicy *)
restore_cut_policy(m) ==
    IF m.cut_policy.kind # "Default" /\ m.cut_policy.cont_pts = <<>>
    THEN [m EXCEPT !.p = PtrAdd(m.p, 1), !.cut_policy = DefaultCutPolicy]
    ELSE [m EXCEPT !.p = PtrAdd(m.p, 1)]

(* CleanUpBlock that removes the choice point of end_block/2 alone *)
clean_up_block_own(m) ==
    LET nb == store(m, deref(m, m.registers[1]))
    IN  IF nb.t = "Usize"
        THEN IF m.b = 0 THEN [m EXCEPT !.status = "panic"]
             ELSE IF nb.a > 0 /\ OrFrame(m, m.b - 1).b = nb.a
             THEN [OrTruncate([m EXCEPT !.b = nb.a], nb.a) EXCEPT !.p = PtrAdd(m.p, 1)]
             ELSE [m EXCEPT !.p = PtrAdd(m.p, 1)]
        ELSE [m EXCEPT !.fail = TRUE]

(* BuiltInInstruction::CleanUpBlock (machine_state_impl.rs 1516-1532); the *)
(* subtraction self.b - 1 on b = 0 is the panic of an overflow             *)
clean_up_block(m) ==
    LET nb == store(m, deref(m, m.registers[1]))
    IN  IF nb.t = "Usize"
        THEN IF m.b = 0 THEN [m EXCEPT !.status = "panic"]
             ELSE IF nb.a > 0 /\ OrFrame(m, m.b - 1).b = nb.a
             THEN LET nbb == OrFrame(m, nb.a - 1).b
                  IN  [OrTruncate([m EXCEPT !.b = nbb], nbb) EXCEPT !.p = PtrAdd(m.p, 1)]
             ELSE [m EXCEPT !.p = PtrAdd(m.p, 1)]
        ELSE [m EXCEPT !.fail = TRUE]

execute_built_in_instr(m, i) ==
    LET next(m1) == [m1 EXCEPT !.p = PtrAdd(m.p, 1)]
    IN
    CASE i.op = "CallInlined" -> execute_inlined(m, i)
      [] i.op = "GetArg" -> get_arg(m, i.lco)
      [] i.op = "DefaultRetryMeElse" -> default_retry_me_else(m, i.offset)
      [] i.op = "DefaultSetCutPoint" -> default_cut(m, i.r)
      [] i.op = "DefaultTrustMe" -> default_trust_me(m)
      [] i.op = "EraseBall" -> next([m EXCEPT !.ball = [origin |-> 0, cells |-> <<>>]])
      [] i.op = "GetCurrentBlock" ->
           next(write_constant_to_var(m, m.registers[1], Usize(m.block)))
      [] i.op = "GetBall" ->
           LET addr == store(m, deref(m, m.registers[1]))
               h    == h_of(m)
               m1   == copy_and_align_ball_to_heap(m)
           IN  IF Len(m.ball.cells) = 0 THEN [m EXCEPT !.fail = TRUE]
               ELSE IF m1.status = "panic" THEN m1
               ELSE IF is_ref(addr) THEN next(bind(m1, addr, as_addr(HeapAt(m1, h), h)))
               ELSE [m1 EXCEPT !.fail = TRUE]
      [] i.op = "GetCutPoint" -> next(SetReg(m, i.r, Usize(m.b)))
      [] i.op = "InferenceLevel" ->
           LET a1 == Reg(m, i.r1)
               a2 == store(m, deref(m, Reg(m, i.r2)))
           IN  next(IF a2.t = "Usize"
                    THEN IF m.b <= a2.a + 1 THEN unify(m, a1, Atom("!"))
                         ELSE unify(m, a1, Atom("true"))
                    ELSE [m EXCEPT !.fail = TRUE])
      [] i.op = "InstallCleaner" ->
           LET pol == IF m.cut_policy.kind = "Default" THEN SgcPolicy ELSE m.cut_policy
           IN  next([m EXCEPT !.cut_policy =
                        [pol EXCEPT !.cont_pts = Append(@, [addr |-> m.registers[1],
                                                            b |-> m.b,
                                                            block |-> m.block])]])
      [] i.op = "InstallInferenceCounter" -> install_inference_counter(m, i)
      [] i.op = "RemoveCallPolicyCheck" -> remove_call_policy_check(m)
      [] i.op = "RemoveInferenceCounter" -> remove_inference_counter(m, i)
      [] i.op = "RestoreCutPolicy" -> restore_cut_policy(m)
      [] i.op = "SetBall" ->
           next(duplicate_ball_term([m EXCEPT !.ball.origin = h_of(m)], m.registers[1]))
      [] i.op = "SetCutPoint" -> policy_cut(m, i.r)
      [] i.op = "CleanUpBlock" -> clean_up_block(m)
      [] i.op = "InstallNewBlock" ->
           LET m1 == [m EXCEPT !.block = m.b]
           IN  next(write_constant_to_var(m1, m1.registers[1], Usize(m1.block)))
      [] i.op = "ResetBlock" -> reset_block(m, deref(m, m.registers[1]))
      [] i.op = "UnwindStack" -> unwind_stack(m)
      [] i.op = "InternalCallN" -> handle_internal_call_n(m)
      [] i.op = "Fail" -> next([m EXCEPT !.fail = TRUE])
      [] i.op = "Succeed" -> next(m)
      [] i.op = "Unify" -> next(unify(m, m.registers[1], m.registers[2]))

----------------------------------------------------------------------------
(* Arithmetic (machine_state_impl.rs 263-590).  A Number is an Integer, a  *)
(* Rational n/d in lowest terms with d > 0, or a Float; a finite Float is  *)
(* held as the fraction n/d it denotes and a Float with d = 0 is not       *)
(* finite.  A result is Ok(v) or Err(hcv).                                 *)

Ok(v)    == [ok |-> TRUE, v |-> v, err |-> <<>>]
Err(hcv) == [ok |-> FALSE, v |-> Integer(0), err |-> hcv]

is_number(c) == c.t \in {"Integer", "Rational", "Float"}

Abs(x) == IF x < 0 THEN -x ELSE x

RECURSIVE Gcd(_, _)
Gcd(x, y) == IF y = 0 THEN x ELSE Gcd(y, x % y)

(* truncating and flooring quotients of the integer operations *)
TruncDiv(x, y) == LET q == Abs(x) \div Abs(y) IN IF (x < 0) = (y < 0) THEN q ELSE -q
TruncRem(x, y) == x - y * TruncDiv(x, y)
FloorDiv(x, y) == IF y > 0 THEN x \div y ELSE (-x) \div (-y)
FloorMod(x, y) == x - y * FloorDiv(x, y)

Ratio(n, d) ==
    LET g  == Gcd(Abs(n), Abs(d))
        sg == IF d < 0 THEN -1 ELSE 1
    IN  [n |-> sg * (n \div g), d |-> sg * (d \div g)]

num_den(x) == IF x.t = "Integer" THEN [n |-> x.a, d |-> 1] ELSE [n |-> x.a, d |-> x.b]
num_rank(x) == CASE x.t = "Integer" -> 0 [] x.t = "Rational" -> 1 [] OTHER -> 2
num_finite(x) == x.t # "Float" \/ x.b # 0
NaN == Float(0, 0)

(* Number built from the fraction q at the rank of the wider operand *)
num_of(q, rank) ==
    LET r == Ratio(q.n, q.d)
    IN  CASE rank = 0 /\ r.d = 1 -> Integer(r.n)
          [] rank = 2 -> Float(r.n, r.d)
          [] OTHER -> Rational(r.n, r.d)

num_rank_max(x, y) == IF num_rank(x) > num_rank(y) THEN num_rank(x) ELSE num_rank(y)

num_add(x, y) ==
    IF ~num_finite(x) \/ ~num_finite(y) THEN NaN
    ELSE LET q1 == num_den(x)
             q2 == num_den(y)
         IN  num_of([n |-> q1.n * q2.d + q2.n * q1.d, d |-> q1.d * q2.d], num_rank_max(x, y))

num_neg(x) == [x EXCEPT !.a = -@]
num_sub(x, y) == num_add(x, num_neg(y))

num_mul(x, y) ==
    IF ~num_finite(x) \/ ~num_finite(y) THEN NaN
    ELSE LET q1 == num_den(x)
             q2 == num_den(y)
         IN  num_of([n |-> q1.n * q2.n, d |-> q1.d * q2.d], num_rank_max(x, y))

num_is_zero(x) == num_finite(x) /\ x.a = 0

num_div(x, y) ==
    IF ~num_finite(x) \/ ~num_finite(y) THEN NaN
    ELSE LET q1 == num_den(x)
             q2 == num_den(y)
             rk == IF num_rank_max(x, y) = 0 THEN 1 ELSE num_rank_max(x, y)
         IN  num_of([n |-> q1.n * q2.d, d |-> q1.d * q2.n], rk)

zero_divisor          == functor1("evaluation_error", Atom("zero_divisor"))
expected_integer_args == functor1("evaluation_error", Atom("expected_integer_args"))
instantiation_err     == functor1("instantiation_error", Atom("(is)/2"))

to_rational(n) ==
    IF num_finite(n) THEN Ok(Rational(num_den(n).n, num_den(n).d)) ELSE Err(instantiation_err)

rdiv(r1, r2) ==
    IF r2.a = 0 THEN Err(zero_divisor)
    ELSE LET q == Ratio(r1.a * r2.b, r1.b * r2.a) IN Ok(Rational(q.n, q.d))

fidiv(n1, n2) ==
    IF n1.t = "Integer" /\ n2.t = "Integer"
    THEN IF n2.a = 0 THEN Err(zero_divisor) ELSE Ok(Integer(FloorDiv(n1.a, n2.a)))
    ELSE Err(expected_integer_args)

(* idiv without the test of the divisor *)
idiv_unchecked(n1, n2) ==
    IF n1.t = "Integer" /\ n2.t = "Integer"
    THEN Ok(Integer(IF n2.a = 0 THEN 0 ELSE TruncDiv(n1.a, n2.a)))
    ELSE Err(expected_integer_args)

idiv(n1, n2) ==
    IF n1.t = "Integer" /\ n2.t = "Integer"
    THEN IF n2.a = 0 THEN Err(zero_divisor) ELSE Ok(Integer(TruncDiv(n1.a, n2.a)))
    ELSE Err(expected_integer_args)

div(n1, n2) == IF num_is_zero(n2) THEN Err(zero_divisor) ELSE Ok(num_div(n1, n2))

modulus(n1, n2) ==
    IF n1.t = "Integer" /\ n2.t = "Integer"
    THEN IF n2.a = 0 THEN Err(zero_divisor) ELSE Ok(Integer(FloorMod(n1.a, n2.a)))
    ELSE Err(expected_integer_args)

remainder(n1, n2) ==
    IF n1.t = "Integer" /\ n2.t = "Integer"
    THEN IF n2.a = 0 THEN Err(zero_divisor) ELSE Ok(Integer(TruncRem(n1.a, n2.a)))
    ELSE Err(expected_integer_args)

(* BigUint & | ^ on naturals *)
RECURSIVE biguint_and(_, _), biguint_or(_, _), biguint_xor(_, _)
biguint_and(x, y) ==
    IF x = 0 \/ y = 0 THEN 0
    ELSE (x % 2) * (y % 2) + 2 * biguint_and(x \div 2, y \div 2)
biguint_or(x, y) ==
    IF x = 0 THEN y ELSE IF y = 0 THEN x
    ELSE (IF x % 2 = 1 \/ y % 2 = 1 THEN 1 ELSE 0) + 2 * biguint_or(x \div 2, y \div 2)
biguint_xor(x, y) ==
    IF x = 0 THEN y ELSE IF y = 0 THEN x
    ELSE ((x + y) % 2) + 2 * biguint_xor(x \div 2, y \div 2)

RECURSIVE Pow2(_)
Pow2(k) == IF k = 0 THEN 1 ELSE 2 * Pow2(k - 1)

(* the number of bytes of BigInt::to_signed_bytes_le: the shortest two's   *)
(* complement form of n                                                    *)
RECURSIVE signed_len(_, _)
signed_len(n, k) ==
    IF -Pow2(8 * k - 1) <= n /\ n < Pow2(8 * k - 1) THEN k ELSE signed_len(n, k + 1)

(* BigUint::from_bytes_le(n.to_signed_bytes_le()) *)
unsigned_of(n) == IF n >= 0 THEN n ELSE n + Pow2(8 * signed_len(n, 1))

(* the number of bytes of BigUint::to_bytes_le *)
RECURSIVE bytes_len(_, _)
bytes_len(u, k) == IF u < Pow2(8 * k) THEN k ELSE bytes_len(u, k + 1)

(* BigInt::from_signed_bytes_le(u.to_bytes_le()): the top bit of the last  *)
(* byte is the sign                                                        *)
signed_of(u) ==
    IF u >= Pow2(8 * bytes_len(u, 1) - 1) THEN u - Pow2(8 * bytes_len(u, 1)) ELSE u

(* signed_bitwise_op with f the operation named *)
signed_bitwise_op(n1, n2, f) ==
    signed_of(CASE f = "&" -> biguint_and(unsigned_of(n1), unsigned_of(n2))
                [] f = "|" -> biguint_or(unsigned_of(n1), unsigned_of(n2))
                [] f = "^" -> biguint_xor(unsigned_of(n1), unsigned_of(n2)))

(* BigInt >> usize and BigInt << usize.  The operators are defined on the  *)
(* integers that are not negative: a count that is no usize is read as     *)
(* usize::max_value(), which shifts every bit out to the right and cannot  *)
(* be shifted by to the left.                                              *)
shr(n1, n2) ==
    IF n1.t = "Integer" /\ n2.t = "Integer"
    THEN CASE n1.a >= 0 /\ n2.a >= 0 -> Ok(Integer(n1.a \div Pow2(n2.a)))
           [] n1.a >= 0 /\ n2.a < 0  -> Ok(Integer(0))
    ELSE Err(expected_integer_args)

shl(n1, n2) ==
    IF n1.t = "Integer" /\ n2.t = "Integer"
    THEN CASE n1.a >= 0 /\ n2.a >= 0 -> Ok(Integer(n1.a * Pow2(n2.a)))
    ELSE Err(expected_integer_args)

xor(n1, n2) ==
    IF n1.t = "Integer" /\ n2.t = "Integer"
    THEN Ok(Integer(signed_bitwise_op(n1.a, n2.a, "^")))
    ELSE Err(expected_integer_args)

(* and without the test of the operands' kinds *)
and_untyped(n1, n2) == Ok(Integer(signed_bitwise_op(n1.a, n2.a, "&")))

and(n1, n2) ==
    IF n1.t = "Integer" /\ n2.t = "Integer"
    THEN Ok(Integer(signed_bitwise_op(n1.a, n2.a, "&")))
    ELSE Err(expected_integer_args)

or(n1, n2) ==
    IF n1.t = "Integer" /\ n2.t = "Integer"
    THEN Ok(Integer(signed_bitwise_op(n1.a, n2.a, "&")))
    ELSE Err(expected_integer_args)

(* ArithmeticTerm *)
AtReg(r)    == [k |-> "Reg", r |-> r, i |-> 0, n |-> Integer(0)]
AtInterm(i) == [k |-> "Interm", r |-> temp_v(0), i |-> i, n |-> Integer(0)]
AtNumber(n) == [k |-> "Number", r |-> temp_v(0), i |-> 0, n |-> n]

(* the binary operators arith_eval_by_metacall knows, by name *)
arith_binop(name, a1, a2) ==
    CASE name = "+" -> Ok(num_add(a1, a2))
      [] name = "-" -> Ok(num_sub(a1, a2))
      [] name = "*" -> Ok(num_mul(a1, a2))
      [] name = "rdiv" ->
           LET r1 == to_rational(a1)
               r2 == to_rational(a2)
           IN  IF ~r1.ok THEN r1 ELSE IF ~r2.ok THEN r2 ELSE rdiv(r1.v, r2.v)
      [] name = "//"  -> idiv(a1, a2)
      [] name = "div" -> fidiv(a1, a2)
      [] name = ">>"  -> shr(a1, a2)
      [] name = "<<"  -> shl(a1, a2)
      [] name = "/\\" -> and(a1, a2)
      [] name = "\\/" -> or(a1, a2)
      [] name = "xor" -> xor(a1, a2)
      [] name = "mod" -> modulus(a1, a2)
      [] name = "rem" -> remainder(a1, a2)
      [] OTHER -> Err(instantiation_err)

(* The post-order walk of the expression with its evaluation stack: the    *)
(* operands are evaluated left to right, then the operator is applied.     *)
RECURSIVE arith_eval(_, _)
arith_eval(m, a) ==
    LET d == store(m, deref(m, a))
    IN  CASE is_number(d) -> Ok(d)
          [] d.t = "Str" ->
               LET hd == HeapAt(m, d.a)
               IN  IF hd.a = 2
                   THEN LET a1 == arith_eval(m, HeapCell(d.a + 1))
                            a2 == arith_eval(m, HeapCell(d.a + 2))
                        IN  IF ~a1.ok THEN a1 ELSE IF ~a2.ok THEN a2
                            ELSE arith_binop(hd.s, a1.v, a2.v)
                   ELSE IF hd.a = 1
                   THEN LET a1 == arith_eval(m, HeapCell(d.a + 1))
                        IN  IF ~a1.ok THEN a1
                            ELSE IF hd.s = "-" THEN Ok(num_neg(a1.v))
                            ELSE Err(instantiation_err)
                   ELSE Err(instantiation_err)
          [] OTHER -> Err(instantiation_err)

arith_eval_by_metacall(m, r) == arith_eval(m, Reg(m, r))

get_number(m, at) ==
    CASE at.k = "Reg"    -> arith_eval_by_metacall(m, at.r)
      [] at.k = "Interm" -> Ok(m.interms[at.i])
      [] at.k = "Number" -> Ok(at.n)

rational_of(n) == IF ~n.ok THEN n ELSE to_rational(n.v)

get_rational(m, at) == rational_of(get_number(m, at))

(* ArithmeticInstruction *)
ArithInstr(op, a1, a2, t) == [op |-> op, a1 |-> a1, a2 |-> a2, t |-> t]
sub(a1, a2, t) == ArithInstr("Sub", a1, a2, t)
add(a1, a2, t) == ArithInstr("Add", a1, a2, t)

ArithOps == {"Add", "Sub", "Mul", "RDiv", "FIDiv", "IDiv", "Neg", "Div",
             "Shr", "Shl", "Xor", "And", "Or", "Mod", "Rem"}

(* the operand of the instruction: rdiv reads rationals, the others numbers *)
arith_operand(m, op, at) ==
    IF op = "RDiv" THEN get_rational(m, at) ELSE get_number(m, at)

(* the operation of the instruction on its operands *)
arith_result(op, n1, n2) ==
    CASE op = "Add"   -> Ok(num_add(n1, n2))
      [] op = "Sub"   -> Ok(num_sub(n1, n2))
      [] op = "Mul"   -> Ok(num_mul(n1, n2))
      [] op = "RDiv"  -> rdiv(n1, n2)
      [] op = "FIDiv" -> fidiv(n1, n2)
      [] op = "IDiv"  -> idiv(n1, n2)
      [] op = "Neg"   -> Ok(num_neg(n1))
      [] op = "Div"   -> div(n1, n2)
      [] op = "Shr"   -> shr(n1, n2)
      [] op = "Shl"   -> shl(n1, n2)
      [] op = "Xor"   -> xor(n1, n2)
      [] op = "And"   -> and(n1, n2)
      [] op = "Or"    -> or(n1, n2)
      [] op = "Mod"   -> modulus(n1, n2)
      [] op = "Rem"   -> remainder(n1, n2)

(* try_or_fail! on the result, then the write of the target and p += 1 *)
arith_write(m, t, r) ==
    IF ~r.ok THEN throw_exception(m, r.err)
    ELSE [m EXCEPT !.interms[t] = r.v, !.p = PtrAdd(m.p, 1)]

arith_apply(m, i, n1, n2) ==
    IF ~n1.ok THEN throw_exception(m, n1.err)
    ELSE IF i.op # "Neg" /\ ~n2.ok THEN throw_exception(m, n2.err)
    ELSE arith_write(m, i.t, arith_result(i.op, n1.v, n2.v))

execute_arith_instr(m, i) ==
    arith_apply(m, i, arith_operand(m, i.op, i.a1), arith_operand(m, i.op, i.a2))

(* ControlInstruction::IsClause *)
IsClause(lco, r, at) == [op |-> "IsClause", lco |-> lco, r |-> r, at |-> at]
is_call(r, at) == IsClause(FALSE, r, at)

is_unify(m, i, a2) ==
    IF ~a2.ok THEN throw_exception(m, a2.err)
    ELSE return_from_clause(unify(m, Reg(m, i.r), a2.v), i.lco)

execute_is_clause(m, i) == is_unify(m, i, get_number(m, i.at))

----------------------------------------------------------------------------
(* The builtin code of get_builtins (builtins.rs 7-648), at the addresses  *)
(* it has there.                                                           *)

code_call_n ==
    <<    \* 0 ..
       InternalCallN >>   \* 0

code_catch ==
    <<    \* 5 ..
       Allocate(4),   \* 5
       fact(<<get_var_in_fact(perm_v(2), 1), get_var_in_fact(perm_v(3), 2), get_var_in_fact(perm_v(1), 3)>>),   \* 6
       query(<<put_var(perm_v(4), 1)>>),   \* 7
       GetCurrentBlock,   \* 8
       query(<<put_value(perm_v(2), 1), put_value(perm_v(3), 2), put_value(perm_v(1), 3), put_unsafe_value(4, 4)>>),   \* 9
       Deallocate,   \* 10
       goto_execute(12, 4),   \* 11
       TryMeElse(10),   \* 12
       Allocate(3),   \* 13
       fact(<<get_var_in_fact(perm_v(3), 1), get_var_in_fact(perm_v(2), 4)>>),   \* 14
       query(<<put_var(perm_v(1), 1)>>),   \* 15
       InstallNewBlock,   \* 16
       query(<<put_value(perm_v(3), 1)>>),   \* 17
       call_n(1),   \* 18
       query(<<put_value(perm_v(2), 1), put_unsafe_value(1, 2)>>),   \* 19
       Deallocate,   \* 20
       goto_execute(44, 2),   \* 21
       DefaultTrustMe,   \* 22
       Allocate(3),   \* 23
       fact(<<get_var_in_fact(perm_v(2), 2), get_var_in_fact(perm_v(1), 3)>>),   \* 24
       query(<<get_var_in_query(temp_v(2), 1), put_value(temp_v(4), 1)>>),   \* 25
       ResetBlock,   \* 26
       query(<<put_var(perm_v(3), 1)>>),   \* 27
       GetBall,   \* 28
       query(<<put_unsafe_value(3, 1), put_value(perm_v(2), 2), put_value(perm_v(1), 3)>>),   \* 29
       Deallocate,   \* 30
       goto_execute(32, 2),   \* 31
       TryMeElse(10),   \* 32
       Allocate(2),   \* 33
       GetLevel(perm_v(1)),   \* 34
       fact(<<get_var_in_fact(perm_v(2), 3)>>),   \* 35
       Unify,   \* 36
       Cut(perm_v(1)),   \* 37
       EraseBall,   \* 38
       query(<<put_value(perm_v(2), 1)>>),   \* 39
       Deallocate,   \* 40
       execute_n(1),   \* 41
       DefaultTrustMe,   \* 42
       UnwindStack,   \* 43
       TryMeElse(9),   \* 44
       Allocate(1),   \* 45
       fact(<<get_var_in_fact(perm_v(1), 1)>>),   \* 46
       query(<<put_value(temp_v(2), 1)>>),   \* 47
       CleanUpBlock,   \* 48
       query(<<put_value(perm_v(1), 1)>>),   \* 49
       Deallocate,   \* 50
       ResetBlock,   \* 51
       Proceed,   \* 52
       DefaultTrustMe,   \* 53
       Allocate(0),   \* 54
       query(<<get_var_in_query(temp_v(3), 1), put_value(temp_v(2), 1)>>),   \* 55
       ResetBlock,   \* 56
       Deallocate,   \* 57
       goto_execute(61, 0),   \* 58
       SetBall,   \* 59
       UnwindStack,   \* 60
       Fail >>   \* 61

code_not ==
    <<    \* 62 ..
       TryMeElse(7),   \* 62
       Allocate(1),   \* 63
       GetLevel(perm_v(1)),   \* 64
       call_n(1),   \* 65
       Cut(perm_v(1)),   \* 66
       Deallocate,   \* 67
       goto_execute(61, 0),   \* 68
       TrustMe,   \* 69
       Proceed >>   \* 70

code_duplicate_term ==
    <<    \* 71 ..
       CallClause(DuplicateTermCT, 2, FALSE),   \* 71
       Proceed >>   \* 72

code_eq ==
    <<    \* 73 ..
       fact(<<get_value(temp_v(1), 2)>>),   \* 73
       Proceed >>   \* 74

code_true ==
    <<    \* 75 ..
       Proceed >>   \* 75

code_functor ==
    <<    \* 162 ..
       functor_execute,   \* 162  functor/3
       is_integer(temp_v(1)),   \* 163  integer/1
       Proceed >>   \* 164

code_arg ==
    <<    \* 165 ..
       get_arg_execute,   \* 165  get_arg/3
       TryMeElse(10),   \* 166  arg/3
       Allocate(4),   \* 167
       fact(<<get_var_in_fact(perm_v(1), 1),
              get_var_in_fact(perm_v(2), 2),
              get_var_in_fact(perm_v(4), 3)>>),   \* 168
       is_var(perm_v(1)),   \* 169
       NeckCut,   \* 170
       query(<<put_value(perm_v(2), 1),
               put_var(temp_v(4), 2),
               put_var(perm_v(3), 3)>>),   \* 171
       functor_call,   \* 172
       query(<<put_value(perm_v(1), 1),
               put_constant(Integer(1), temp_v(2)),
               put_unsafe_value(3, 3),
               put_value(perm_v(2), 4),
               put_value(perm_v(4), 5)>>),   \* 173
       Deallocate,   \* 174
       goto_execute(189, 5),   \* 175
       RetryMeElse(10),   \* 176
       Allocate(3),   \* 177
       fact(<<get_var_in_fact(perm_v(1), 1),
              get_var_in_fact(perm_v(2), 2),
              get_var_in_fact(perm_v(3), 3)>>),   \* 178
       is_integer(perm_v(1)),   \* 179
       NeckCut,   \* 180
       query(<<put_value(perm_v(2), 1),
               put_var(temp_v(4), 2),
               put_var(temp_v(3), 3)>>),   \* 181
       functor_call,   \* 182
       query(<<put_value(perm_v(1), 1),
               put_value(perm_v(2), 2),
               put_value(perm_v(3), 3)>>),   \* 183
       Deallocate,   \* 184
       goto_execute(165, 3),   \* 185
       TrustMe,   \* 186
       query(<<get_var_in_query(temp_v(4), 1),
               put_structure("type_error", 1, temp_v(1)),
               set_constant(Atom("integer_expected"))>>),   \* 187
       goto_execute(59, 1) >>   \* 188

code_univ ==
    <<    \* 224 ..
       TryMeElse(5),   \* 224
       fact(<<get_var_in_fact(temp_v(3), 1),
              get_list(temp_v(2)),
              unify_value(temp_v(3)),
              unify_constant(EmptyList)>>),   \* 225
       is_atomic(temp_v(3)),   \* 226
       NeckCut,   \* 227
       Proceed,   \* 228
       RetryMeElse(11),   \* 229
       Allocate(4),   \* 230
       GetLevel(perm_v(1)),   \* 231
       fact(<<get_var_in_fact(perm_v(3), 1),
              get_list(temp_v(2)),
              unify_variable(temp_v(2)),
              unify_variable(perm_v(4))>>),   \* 232
       is_var(perm_v(4)),   \* 233
       query(<<put_value(perm_v(3), 1), put_var(perm_v(2), 3)>>),   \* 234
       functor_call,   \* 235
       Cut(perm_v(1)),   \* 236
       query(<<put_unsafe_value(4, 1),
               put_value(perm_v(3), 2),
               put_constant(Integer(1), temp_v(3)),
               put_unsafe_value(2, 4)>>),   \* 237
       Deallocate,   \* 238
       goto_execute(252, 4),   \* 239
       TrustMe,   \* 240
       Allocate(5),   \* 241
       GetLevel(perm_v(1)),   \* 242
       fact(<<get_var_in_fact(perm_v(3), 1),
              get_list(temp_v(2)),
              unify_variable(perm_v(5)),
              unify_variable(perm_v(4))>>),   \* 243
       query(<<put_value(perm_v(4), 1), put_var(perm_v(2), 2)>>),   \* 244
       goto_call(277, 2),   \* 245
       query(<<put_value(perm_v(3), 1),
               put_value(perm_v(5), 2),
               put_value(perm_v(2), 3)>>),   \* 246
       functor_call,   \* 247
       Cut(perm_v(1)),   \* 248
       query(<<put_unsafe_value(4, 1),
               put_value(perm_v(3), 2),
               put_constant(Integer(1), temp_v(3)),
               put_unsafe_value(2, 4)>>),   \* 249
       Deallocate,   \* 250
       goto_execute(252, 4),   \* 251
       TryMeElse(5),   \* 252
       fact(<<get_var_in_fact(temp_v(5), 1), get_constant(Integer(0), temp_v(4))>>),   \* 253
       NeckCut,   \* 254
       query(<<put_value(temp_v(5), 1), put_constant(EmptyList, temp_v(2))>>),   \* 255
       goto_execute(73, 2),   \* 256
       TrustMe,   \* 257
       SwitchOnTerm(3, 0, 1, 0),   \* 258
       Try(3),   \* 259
       Trust(7),   \* 260
       TryMeElse(5),   \* 261
       fact(<<get_list(temp_v(1)),
              unify_variable(temp_v(5)),
              unify_constant(EmptyList),
              get_var_in_fact(temp_v(6), 2),
              get_var_in_fact(temp_v(1), 3),
              get_value(temp_v(1), 4)>>),   \* 262
       NeckCut,   \* 263
       query(<<put_value(temp_v(6), 2), put_value(temp_v(5), 3)>>),   \* 264
       get_arg_execute,   \* 265
       TrustMe,   \* 266
       Allocate(5),   \* 267
       fact(<<get_list(temp_v(1)),
              unify_variable(temp_v(5)),
              unify_variable(perm_v(4)),
              get_var_in_fact(perm_v(3), 2),
              get_var_in_fact(perm_v(5), 3),
              get_var_in_fact(perm_v(1), 4)>>),   \* 268
       query(<<put_value(perm_v(5), 1),
               put_value(perm_v(3), 2),
               put_value(temp_v(5), 3)>>),   \* 269
       get_arg_call,   \* 270
       add(AtReg(perm_v(5)), AtNumber(Integer(1)), 1),   \* 271
       query(<<put_var(perm_v(2), 1)>>),   \* 272
       is_call(perm_v(2), AtInterm(1)),   \* 273
       query(<<put_unsafe_value(4, 1),
               put_value(perm_v(3), 2),
               put_unsafe_value(2, 3),
               put_value(perm_v(1), 4)>>),   \* 274
       Deallocate,   \* 275
       goto_execute(252, 4) >>   \* 276

code_length ==
    <<    \* 277 ..
       TryMeElse(6),   \* 277
       fact(<<get_var_in_fact(temp_v(4), 1), get_var_in_fact(temp_v(3), 2)>>),   \* 278
       is_var(temp_v(3)),   \* 279
       NeckCut,   \* 280
       query(<<put_value(temp_v(4), 1), put_constant(Integer(0), temp_v(2))>>),   \* 281
       goto_execute(297, 3),   \* 282
       RetryMeElse(10),   \* 283
       Allocate(1),   \* 284
       GetLevel(perm_v(1)),   \* 285
       fact(<<get_var_in_fact(temp_v(4), 1), get_var_in_fact(temp_v(3), 2)>>),   \* 286
       is_integer(temp_v(3)),   \* 287
       query(<<put_value(temp_v(4), 1), put_constant(Integer(0), temp_v(2))>>),   \* 288
       goto_call(297, 3),   \* 289
       Cut(perm_v(1)),   \* 290
       Deallocate,   \* 291
       Proceed,   \* 292
       TrustMe,   \* 293
       fact(<<get_var_in_fact(temp_v(3), 1), get_var_in_fact(temp_v(4), 2)>>),   \* 294
       query(<<put_structure("type_error", 2, temp_v(1)),
               set_constant(Atom("integer_expected")),
               set_value(temp_v(4))>>),   \* 295
       goto_execute(59, 1),   \* 296
       SwitchOnTerm(1, 2, 5, 0),   \* 297
       TryMeElse(3),   \* 298
       fact(<<get_constant(EmptyList, temp_v(1)),
              get_var_in_fact(temp_v(4), 2),
              get_value(temp_v(4), 3)>>),   \* 299
       Proceed,   \* 300
       TrustMe,   \* 301
       Allocate(3),   \* 302
       fact(<<get_list(temp_v(1)),
              unify_void(1),
              unify_variable(perm_v(1)),
              get_var_in_fact(temp_v(4), 2),
              get_var_in_fact(perm_v(3), 3)>>),   \* 303
       add(AtReg(temp_v(4)), AtNumber(Integer(1)), 1),   \* 304
       query(<<put_var(perm_v(2), 1)>>),   \* 305
       is_call(perm_v(2), AtInterm(1)),   \* 306
       query(<<put_unsafe_value(1, 1), put_unsafe_value(2, 2), put_value(perm_v(3), 3)>>),   \* 307
       Deallocate,   \* 308
       goto_execute(297, 3) >>   \* 309

code_display ==
    <<    \* 208 ..
       CallClause(Display, 1, FALSE),   \* 208
       Proceed >>   \* 209

code_setup_call_cleanup ==
    <<    \* 310 ..
       Allocate(4),   \* 310
       GetLevel(perm_v(1)),   \* 311
       fact(<<get_var_in_fact(perm_v(2), 2), get_var_in_fact(perm_v(3), 3)>>),   \* 312
       call_n(1),   \* 313
       Cut(perm_v(1)),   \* 314
       query(<<put_var(perm_v(4), 1)>>),   \* 315
       GetCurrentBlock,   \* 316
       query(<<put_value(perm_v(3), 1), put_unsafe_value(4, 2), put_value(perm_v(2), 3)>>),   \* 317
       Deallocate,   \* 318
       jmp_execute(3, 1),   \* 319
       TryMeElse(5),   \* 320
       is_var(temp_v(1)),   \* 321
       NeckCut,   \* 322
       query(<<put_constant(Atom("instantiation_error"), temp_v(1))>>),   \* 323
       goto_execute(59, 1),   \* 324
       DefaultTrustMe,   \* 325
       query(<<get_var_in_query(temp_v(4), 2), put_value(temp_v(3), 2), get_var_in_query(temp_v(5), 3), put_value(temp_v(4), 3)>>),   \* 326
       goto_execute(328, 3),   \* 327
       TryMeElse(13),   \* 328
       Allocate(4),   \* 329
       fact(<<get_var_in_fact(perm_v(4), 1), get_var_in_fact(perm_v(3), 2), get_var_in_fact(perm_v(2), 3)>>),   \* 330
       GetLevel(perm_v(1)),   \* 331
       query(<<put_value(perm_v(4), 1)>>),   \* 332
       InstallCleaner,   \* 333
       query(<<put_var(temp_v(2), 1)>>),   \* 334
       InstallNewBlock,   \* 335
       query(<<put_value(perm_v(3), 1)>>),   \* 336
       call_n(1),   \* 337
       query(<<put_value(perm_v(2), 1), put_value(perm_v(1), 2)>>),   \* 338
       Deallocate,   \* 339
       CheckCpExecute,   \* 340
       DefaultRetryMeElse(12),   \* 341
       Allocate(2),   \* 342
       query(<<put_value(temp_v(3), 1)>>),   \* 343
       ResetBlock,   \* 344
       query(<<put_var(perm_v(1), 1)>>),   \* 345
       GetBall,   \* 346
       GetLevel(perm_v(2)),   \* 347
       DefaultSetCutPoint(perm_v(2)),   \* 348
       goto_call(358, 0),   \* 349
       query(<<put_unsafe_value(1, 1)>>),   \* 350
       Deallocate,   \* 351
       goto_execute(59, 1),   \* 352
       DefaultTrustMe,   \* 353
       Allocate(0),   \* 354
       goto_call(370, 0),   \* 355
       Deallocate,   \* 356
       Fail,   \* 357
       TryMeElse(10),   \* 358
       Allocate(2),   \* 359
       GetLevel(perm_v(1)),   \* 360
       query(<<put_var(perm_v(2), 1)>>),   \* 361
       GetCleanerCall,   \* 362
       query(<<put_value(perm_v(2), 1), put_var(temp_v(4), 2), put_constant(Atom("true"), temp_v(3))>>),   \* 363
       goto_call(5, 3),   \* 364
       DefaultSetCutPoint(perm_v(1)),   \* 365
       Deallocate,   \* 366
       goto_execute(358, 0),   \* 367
       DefaultTrustMe,   \* 368
       goto_execute(398, 0),   \* 369
       TryMeElse(10),   \* 370
       Allocate(2),   \* 371
       GetLevel(perm_v(1)),   \* 372
       query(<<put_var(perm_v(2), 1)>>),   \* 373
       GetCleanerCall,   \* 374
       query(<<put_value(perm_v(2), 1)>>),   \* 375
       call_n(1),   \* 376
       DefaultSetCutPoint(perm_v(1)),   \* 377
       Deallocate,   \* 378
       goto_execute(370, 0),   \* 379
       DefaultTrustMe,   \* 380
       goto_execute(398, 0),   \* 381
       Allocate(1),   \* 382
       fact(<<get_var_in_fact(perm_v(1), 2)>>),   \* 383
       ResetBlock,   \* 384
       Cut(perm_v(1)),   \* 385
       Deallocate,   \* 386
       Proceed >>   \* 387

code_restore_cut_policy ==
    <<    \* 398 ..
       RestoreCutPolicy,   \* 398
       Proceed >>   \* 399

code_call_with_inference_limit ==
    <<    \* 409 ..
       Allocate(5),   \* 409
       fact(<<get_var_in_fact(perm_v(4), 1), get_var_in_fact(perm_v(3), 2), get_var_in_fact(perm_v(2), 3)>>),   \* 410
       query(<<put_var(perm_v(5), 1)>>),   \* 411
       GetCurrentBlock,   \* 412
       GetCutPoint(perm_v(1)),   \* 413
       query(<<put_value(perm_v(4), 1), put_value(perm_v(3), 2), put_value(perm_v(2), 3), put_value(perm_v(5), 4), put_value(perm_v(1), 5)>>),   \* 414
       goto_call(420, 5),   \* 415
       query(<<put_value(perm_v(1), 1)>>),   \* 416
       Deallocate,   \* 417
       RemoveCallPolicyCheck,   \* 418
       Proceed,   \* 419
       TryMeElse(19),   \* 420
       Allocate(9),   \* 421
       fact(<<get_var_in_fact(perm_v(9), 1), get_var_in_fact(perm_v(5), 2), get_var_in_fact(perm_v(8), 3), get_var_in_fact(perm_v(3), 4), get_var_in_fact(perm_v(4), 5)>>),   \* 422
       query(<<put_var(perm_v(1), 1)>>),   \* 423
       InstallNewBlock,   \* 424
       query(<<put_var(perm_v(7), 3)>>),   \* 425
       InstallInferenceCounter(perm_v(4), perm_v(5), perm_v(7)),   \* 426
       query(<<put_value(perm_v(9), 1)>>),   \* 427
       call_n(1),   \* 428
       InferenceLevel(perm_v(8), perm_v(4)),   \* 429
       query(<<put_var(perm_v(6), 2)>>),   \* 430
       RemoveInferenceCounter(perm_v(4), perm_v(6)),   \* 431
       sub(AtReg(perm_v(6)), AtReg(perm_v(7)), 1),   \* 432
       sub(AtReg(perm_v(5)), AtInterm(1), 1),   \* 433
       query(<<put_var(perm_v(2), 1)>>),   \* 434
       is_call(temp_v(1), AtInterm(1)),   \* 435
       query(<<put_value(perm_v(4), 1), put_value(perm_v(3), 2), put_value(perm_v(1), 3), put_value(perm_v(2), 4)>>),   \* 436
       Deallocate,   \* 437
       goto_execute(468, 4),   \* 438
       DefaultTrustMe,   \* 439
       Allocate(3),   \* 440
       fact(<<get_var_in_fact(perm_v(1), 3), get_var_in_fact(perm_v(3), 5)>>),   \* 441
       query(<<put_value(temp_v(4), 1)>>),   \* 442
       ResetBlock,   \* 443
       query(<<put_var(temp_v(3), 2)>>),   \* 444
       RemoveInferenceCounter(perm_v(3), temp_v(2)),   \* 445
       query(<<put_value(perm_v(3), 1), put_var(perm_v(2), 2)>>),   \* 446
       jmp_call(2, 5),   \* 447
       EraseBall,   \* 448
       query(<<put_value(perm_v(3), 1), put_unsafe_value(2, 2), put_value(perm_v(1), 3)>>),   \* 449
       Deallocate,   \* 450
       goto_execute(460, 3),   \* 451
       TryMeElse(5),   \* 452
       query(<<put_value(temp_v(2), 1)>>),   \* 453
       GetBall,   \* 454
       NeckCut,   \* 455
       Proceed,   \* 456
       DefaultTrustMe,   \* 457
       RemoveCallPolicyCheck,   \* 458
       Fail,   \* 459
       TryMeElse(4),   \* 460
       fact(<<get_structure("inference_limit_exceeded", 1, temp_v(2)), unify_value(temp_v(1)), get_constant(Atom("inference_limit_exceeded"), temp_v(3))>>),   \* 461
       NeckCut,   \* 462
       Proceed,   \* 463
       DefaultTrustMe,   \* 464
       RemoveCallPolicyCheck,   \* 465
       query(<<put_value(temp_v(2), 1)>>),   \* 466
       goto_execute(59, 1),   \* 467
       TryMeElse(6),   \* 468
       query(<<put_value(temp_v(3), 1)>>),   \* 469
       CleanUpBlock,   \* 470
       query(<<put_value(temp_v(2), 1)>>),   \* 471
       ResetBlock,   \* 472
       Proceed,   \* 473
       DefaultTrustMe,   \* 474
       query(<<get_var_in_query(temp_v(5), 3), put_value(temp_v(4), 2), put_var(temp_v(6), 3)>>),   \* 475
       InstallInferenceCounter(temp_v(1), temp_v(4), temp_v(6)),   \* 476
       query(<<put_value(temp_v(5), 1)>>),   \* 477
       ResetBlock,   \* 478
       Fail >>   \* 479

code_segments ==
    << <<0, code_call_n>>, <<5, code_catch>>, <<62, code_not>>,
       <<71, code_duplicate_term>>, <<73, code_eq>>, <<75, code_true>>,
       <<162, code_functor>>, <<165, code_arg>>,
       <<208, code_display>>, <<224, code_univ>>, <<277, code_length>>,
       <<310, code_setup_call_cleanup>>,
       <<398, code_restore_cut_policy>>, <<409, code_call_with_inference_limit>>,
       <<ProgramBase, code_program>> >>

in_segment(a, sg) == sg[1] <= a /\ a < sg[1] + Len(sg[2])
segment_of(segs, a) == segs[CHOOSE k \in DOMAIN segs : in_segment(a, segs[k])]
code_in(sg, a) == sg[2][a - sg[1] + 1]
code_at(a) == code_in(segment_of(code_segments, a), a)

----------------------------------------------------------------------------
(* The queries submitted at the top level, as the code of their lines.     *)

put_goal1(name, c, r) == <<put_structure(name, 1, r), set_constant(c)>>

query_a ==                  \* ?- a(Z).
    << query(<<put_var(temp_v(1), 1)>>), CallClause(Named("a", 1), 1, FALSE) >>

query_catch_bound ==        \* ?- catch(throw(a), X, display(X)).
    << query(put_goal1("throw", Atom("a"), temp_v(1))
             \o <<put_var(temp_v(4), 2), put_structure("display", 1, temp_v(3)),
                  set_value(temp_v(4))>>),
       CallClause(Named("catch", 3), 3, FALSE) >>

query_catch_miss ==         \* ?- catch(throw(a), b, display(rec)).
    << query(put_goal1("throw", Atom("a"), temp_v(1))
             \o <<put_constant(Atom("b"), temp_v(2))>>
             \o put_goal1("display", Atom("rec"), temp_v(3))),
       CallClause(Named("catch", 3), 3, FALSE) >>

query_catch_nested ==       \* ?- catch(catch(throw(a), b, display(r1)), a, display(r2)).
    << query(put_goal1("throw", Atom("a"), temp_v(4))
             \o put_goal1("display", Atom("r1"), temp_v(5))
             \o <<put_structure("catch", 3, temp_v(1)), set_value(temp_v(4)),
                  set_constant(Atom("b")), set_value(temp_v(5)),
                  put_constant(Atom("a"), temp_v(2))>>
             \o put_goal1("display", Atom("r2"), temp_v(3))),
       CallClause(Named("catch", 3), 3, FALSE) >>

query_catch_true ==         \* ?- catch(true, X, display(rec)).
    << query(<<put_constant(Atom("true"), temp_v(1)), put_var(temp_v(4), 2)>>
             \o put_goal1("display", Atom("rec"), temp_v(3))),
       CallClause(Named("catch", 3), 3, FALSE) >>

query_catch_struct ==       \* ?- catch(throw(f(a)), f(X), display(X)).
    << query(put_goal1("f", Atom("a"), temp_v(5))
             \o <<put_structure("throw", 1, temp_v(1)), set_value(temp_v(5)),
                  put_structure("f", 1, temp_v(2)), set_variable(temp_v(4)),
                  put_structure("display", 1, temp_v(3)), set_value(temp_v(4))>>),
       CallClause(Named("catch", 3), 3, FALSE) >>

query_throw ==              \* ?- throw(a).
    << query(<<put_constant(Atom("a"), temp_v(1))>>),
       CallClause(Named("throw", 1), 1, FALSE) >>

query_catch_t ==            \* ?- catch(t, X, true).
    << query(<<put_constant(Atom("t"), temp_v(1)), put_var(temp_v(4), 2),
               put_constant(Atom("true"), temp_v(3))>>),
       CallClause(Named("catch", 3), 3, FALSE) >>

query_catch_choice ==       \* ?- catch(m(X), _, true).
    << query(<<put_structure("m", 1, temp_v(1)), set_variable(temp_v(4)),
               put_var(temp_v(5), 2), put_constant(Atom("true"), temp_v(3))>>),
       CallClause(Named("catch", 3), 3, FALSE) >>

query_o ==                  \* ?- o.
    << CallClause(Named("o", 0), 0, FALSE) >>

scc_query(goal, cleanup) ==
    << query(<<put_constant(Atom("true"), temp_v(1))>> \o goal
             \o put_goal1("display", Atom(cleanup), temp_v(3))),
       CallClause(Named("setup_call_cleanup", 3), 3, FALSE) >>

query_scc_true ==           \* ?- setup_call_cleanup(true, true, display(c)).
    scc_query(<<put_constant(Atom("true"), temp_v(2))>>, "c")

query_scc_fail ==           \* ?- setup_call_cleanup(true, false, display(c)).
    scc_query(<<put_constant(Atom("false"), temp_v(2))>>, "c")

query_scc_throw ==          \* ?- setup_call_cleanup(true, throw(a), display(c)).
    scc_query(put_goal1("throw", Atom("a"), temp_v(2)), "c")

query_scc_nested ==         \* ?- setup_call_cleanup(true,
                            \*        setup_call_cleanup(true, true, display(c1)),
                            \*        display(c2)).
    scc_query(put_goal1("display", Atom("c1"), temp_v(4))
              \o <<put_structure("setup_call_cleanup", 3, temp_v(2)),
                   set_constant(Atom("true")), set_constant(Atom("true")),
                   set_value(temp_v(4))>>, "c2")

query_scc_choice ==         \* ?- setup_call_cleanup(true, m(X), display(c)).
    scc_query(<<put_structure("m", 1, temp_v(2)), set_variable(temp_v(4))>>, "c")

cwil_query(goal, limit) ==
    << query(goal \o <<put_constant(Integer(limit), temp_v(2)), put_var(temp_v(4), 3)>>),
       CallClause(Named("call_with_inference_limit", 3), 3, FALSE) >>

query_cwil_zero ==          \* ?- call_with_inference_limit(display(x), 0, R).
    cwil_query(put_goal1("display", Atom("x"), temp_v(1)), 0)

query_cwil_true ==          \* ?- call_with_inference_limit(true, 5, R).
    cwil_query(<<put_constant(Atom("true"), temp_v(1))>>, 5)

query_cwil_fail ==          \* ?- call_with_inference_limit(false, 5, R).
    cwil_query(<<put_constant(Atom("false"), temp_v(1))>>, 5)

query_cwil_throw ==         \* ?- call_with_inference_limit(throw(a), 5, R).
    cwil_query(put_goal1("throw", Atom("a"), temp_v(1)), 5)

query_cwil_nested ==        \* ?- call_with_inference_limit(
                            \*        call_with_inference_limit(true, 3, R1), 5, R).
    cwil_query(<<put_structure("call_with_inference_limit", 3, temp_v(1)),
                 set_constant(Atom("true")), set_constant(Integer(3)),
                 set_variable(temp_v(5))>>, 5)

query_cwil_choice ==        \* ?- call_with_inference_limit(m(X), 5, R).
    cwil_query(<<put_structure("m", 1, temp_v(1)), set_variable(temp_v(5))>>, 5)

query_cwil_zero_bind ==     \* ?- call_with_inference_limit(m(X), 0, R).
    cwil_query(<<put_structure("m", 1, temp_v(1)), set_variable(temp_v(5))>>, 0)

query_scc_pending ==        \* ?- setup_call_cleanup(true, m(X), display(c)),
                            \*    setup_call_cleanup(true, true, display(d)).
    query_scc_choice \o scc_query(<<put_constant(Atom("true"), temp_v(2))>>, "d")

(* ?- arg(N, f(a, b), A). with A a fresh variable or the constant third *)
arg_query(n, third) ==
    << query(<<third,
               put_structure("f", 2, temp_v(2)),
               set_constant(Atom("a")), set_constant(Atom("b")),
               put_constant(Integer(n), temp_v(1))>>),
       CallClause(Named("arg", 3), 3, FALSE) >>

query_arg_neg   == arg_query(-1, put_var(temp_v(4), 3))   \* ?- arg(-1, f(a, b), A).
query_arg_zero  == arg_query(0, put_var(temp_v(4), 3))    \* ?- arg(0, f(a, b), A).
query_arg_one   == arg_query(1, put_var(temp_v(4), 3))    \* ?- arg(1, f(a, b), A).
query_arg_two   == arg_query(2, put_var(temp_v(4), 3))    \* ?- arg(2, f(a, b), A).
query_arg_three == arg_query(3, put_var(temp_v(4), 3))    \* ?- arg(3, f(a, b), A).
query_arg_same  == arg_query(2, put_constant(Atom("b"), temp_v(3)))   \* ?- arg(2, f(a, b), b).
query_arg_other == arg_query(1, put_constant(Atom("b"), temp_v(3)))   \* ?- arg(1, f(a, b), b).
query_arg_atom  ==          \* ?- arg(x, f(a, b), A).
    << query(<<put_var(temp_v(4), 3), put_structure("f", 2, temp_v(2)),
               set_constant(Atom("a")), set_constant(Atom("b")),
               put_constant(Atom("x"), temp_v(1))>>),
       CallClause(Named("arg", 3), 3, FALSE) >>

(* ?- S =.. L, S2 =.. L. with S put by the instructions in term; the     *)
(* query keeps L in Y1 and S2 in Y2                                        *)
univ_query(term) ==
    << Allocate(2),
       query(term \o <<put_var(temp_v(3), 2), get_var_in_query(perm_v(1), 2)>>),
       CallClause(Named("=..", 2), 2, FALSE),
       query(<<put_var(temp_v(3), 1), get_var_in_query(perm_v(2), 1),
               put_value(perm_v(1), 2)>>),
       CallClause(Named("=..", 2), 2, FALSE) >>

query_univ_two ==           \* ?- f(a, b) =.. L, S2 =.. L.
    univ_query(<<put_structure("f", 2, temp_v(1)),
                 set_constant(Atom("a")), set_constant(Atom("b"))>>)

query_univ_var ==           \* ?- g(X) =.. L, S2 =.. L.
    univ_query(<<put_structure("g", 1, temp_v(1)), set_variable(temp_v(5))>>)

query_univ_nested ==        \* ?- f(g(b), 1) =.. L, S2 =.. L.
    univ_query(<<put_structure("g", 1, temp_v(5)), set_constant(Atom("b")),
                 put_structure("f", 2, temp_v(1)),
                 set_value(temp_v(5)), set_constant(Integer(1))>>)

queries ==
    << query_a, query_catch_bound, query_catch_miss, query_catch_nested,
       query_catch_true, query_throw, query_catch_t, query_o,
       query_scc_true, query_scc_fail, query_scc_throw, query_scc_nested,
       query_scc_choice,
       query_cwil_zero, query_cwil_true, query_cwil_fail, query_cwil_throw,
       query_cwil_nested, query_catch_struct, query_cwil_choice,
       query_cwil_zero_bind, query_scc_pending,
       query_arg_neg, query_arg_zero, query_arg_one, query_arg_two,
       query_arg_three, query_arg_same, query_arg_other, query_arg_atom,
       query_univ_two, query_univ_var, query_univ_nested, query_catch_choice >>

----------------------------------------------------------------------------
(* The dispatch loop: fetch the instruction at p, execute it, backtrack if *)
(* it failed.  A query succeeds when p leaves its code and fails finally   *)
(* when failure finds no choice point.                                     *)

fetch(m, q) == IF m.p.k = "TopLevel" THEN queries[q][m.p.i + 1] ELSE code_at(m.p.i)

FactOps    == {"Fact"}
QueryOps   == {"Query"}
ControlOps == {"Allocate", "CallClause", "CheckCpExecute", "Deallocate", "GetCleanerCall",
               "Goto", "IsClause", "JmpBy", "Proceed"}
ChoiceOps  == {"TryMeElse", "RetryMeElse", "TrustMe"}
IndexedChoiceOps == {"Try", "Retry", "Trust"}
IndexingOps == {"SwitchOnTerm", "SwitchOnConstant", "SwitchOnStructure"}
CutOps     == {"NeckCut", "GetLevel", "Cut"}
BuiltInOps == {"CallInlined", "GetArg", "DefaultRetryMeElse", "DefaultSetCutPoint", "DefaultTrustMe",
               "EraseBall", "GetCurrentBlock", "GetBall", "GetCutPoint", "InferenceLevel",
               "InstallCleaner", "InstallInferenceCounter", "RemoveCallPolicyCheck",
               "RemoveInferenceCounter", "RestoreCutPolicy", "SetBall", "SetCutPoint",
               "CleanUpBlock", "InstallNewBlock", "ResetBlock", "UnwindStack",
               "InternalCallN", "Fail", "Succeed", "Unify"}

execute_fact(m, i)  == [run_fact(m, i.is, 1) EXCEPT !.p = PtrAdd(m.p, 1)]
execute_query(m, i) == [run_query(m, i.is, 1) EXCEPT !.p = PtrAdd(m.p, 1)]
execute_control(m, i) ==
    IF i.op = "IsClause" THEN execute_is_clause(m, i) ELSE execute_ctrl_instr(m, i)

backtrack(m) ==
    IF m.b > 0
    THEN LET fr == OrFrame(m, m.b - 1)
         IN  [m EXCEPT !.b0 = fr.b0, !.p = fr.bp,
                       !.fail = (fr.bp.k = "TopLevel" /\ fr.bp.i = 0)]
    ELSE [m EXCEPT !.p = TopLevel(0)]

(* the loop after the instruction: backtrack if it failed *)
after_instr(m) ==
    IF m.status = "panic" THEN m ELSE IF m.fail THEN backtrack(m) ELSE m

(* the outcome of the query when the loop ends *)
outcome(m, q) ==
    CASE m.status = "panic" -> m
      [] m.fail -> [m EXCEPT !.status = IF Len(m.ball.cells) > 0
                                            THEN "exception" ELSE "failed"]
      [] m.p.k = "TopLevel" /\ m.p.i >= Len(queries[q]) ->
           [m EXCEPT !.status = "succeeded"]
      [] OTHER -> m

(* one turn of the loop, m1 being the machine after the instruction *)
step(m1, q) == outcome(after_instr(m1), q)

----------------------------------------------------------------------------
(* Observations.  obs records what the properties below speak about and    *)
(* the machine never reads: for every choice point on the OR-stack the     *)
(* heap, the AND-stack and the set of live environment frames at the       *)
(* moment it was pushed (snaps), the frames live now (live), and for the   *)
(* instruction just executed its name and the state it started from (op,   *)
(* pre), with the snapshot of the choice point it restored (snap) and, for *)
(* an arithmetic instruction, the instruction (instr).                     *)

RestoreOps == {"RetryMeElse", "TrustMe", "DefaultRetryMeElse", "DefaultTrustMe",
               "Retry", "Trust"}

NoSnap == [heap |-> <<>>, and_stack |-> <<>>, live |-> {}]
NoInstr == ArithInstr("", AtNumber(Integer(0)), AtNumber(Integer(0)), 1)
NoObs  == [snaps |-> <<>>, live |-> {}, op |-> "", instr |-> NoInstr, snap |-> NoSnap,
           pre |-> NewMachine, blocks |-> {}, ends |-> {}, calls |-> {}]

(* the pairs of prs with the pair of key k replaced by <<k, v>> *)
Remember(prs, k, v) == {pr \in prs : pr[1] # k} \cup {<<k, v>>}

observe(o, m, i, m2) ==
    LET n == IF Len(o.snaps) < Len(m2.or_stack) THEN Len(o.snaps) ELSE Len(m2.or_stack)
    IN  [snaps |-> IF i.op \in {"TryMeElse", "Try"}
                   THEN SubSeq(o.snaps, 1, Len(m.or_stack))
                        \o <<[heap |-> m.heap, and_stack |-> m.and_stack, live |-> o.live]>>
                   ELSE SubSeq(o.snaps, 1, n),
         live  |-> CASE i.op = "Allocate"   -> o.live \cup {m2.e}
                     [] i.op = "Deallocate" -> o.live \ {m.e}
                     [] i.op \in RestoreOps -> o.snaps[m.b].live
                     [] OTHER               -> o.live,
         op    |-> i.op,
         instr |-> IF i.op \in ArithOps \cup {"TryMeElse", "Try"} THEN i ELSE NoInstr,
         snap  |-> IF i.op \in RestoreOps THEN o.snaps[m.b] ELSE NoSnap,
         pre   |-> m,
         blocks |-> IF i.op = "InstallNewBlock" /\ ~m2.fail
                    THEN Remember(o.blocks, m2.block, m.block) ELSE o.blocks,
         ends   |-> IF i.op = "TryMeElse" /\ m.p = DirEntry(44)
                    THEN Remember(o.ends, m2.b, m.block) ELSE o.ends,
         calls  |-> IF i.op = "TryMeElse" /\ m.p = DirEntry(12)
                    THEN Remember(o.calls, m2.b, m.b) ELSE o.calls]

----------------------------------------------------------------------------
(* The actions: one for the submission of a query, one per family of       *)
(* instructions, one for the request of the next solution and one for the  *)
(* reset between two queries.                                              *)

Start(m) ==
    /\ s = m.s /\ p = m.p /\ b = m.b /\ b0 = m.b0 /\ e = m.e
    /\ num_of_args = m.num_of_args /\ cp = m.cp /\ fail = m.fail
    /\ heap = m.heap /\ mode = m.mode /\ and_stack = m.and_stack
    /\ or_stack = m.or_stack /\ registers = m.registers /\ trail = m.trail
    /\ tr = m.tr /\ hb = m.hb /\ block = m.block /\ ball = m.ball
    /\ interms = m.interms /\ call_policy = m.call_policy
    /\ cut_policy = m.cut_policy /\ status = m.status /\ output = m.output

Init == Start(NewMachine) /\ scenario = 0 /\ obs = NoObs

SubmitQuery ==
    /\ status = "idle"
    /\ \E q \in DOMAIN queries :
          /\ scenario' = q
          /\ Commit([M EXCEPT !.p = TopLevel(0), !.status = "running"])
    /\ obs' = NoObs

Record(i, m2) == Commit(m2) /\ obs' = observe(obs, M, i, m2)

(* the instruction i at p belongs to the family ops and leaves the machine *)
(* m1                                                                      *)
Exec(ops, i, m1) ==
    /\ status = "running"
    /\ i.op \in ops
    /\ Record(i, step(m1, scenario))
    /\ UNCHANGED scenario

ExecFactAt(i)    == Exec(FactOps, i, execute_fact(M, i))
ExecQueryAt(i)   == Exec(QueryOps, i, execute_query(M, i))
ExecControlAt(i) == Exec(ControlOps, i, execute_control(M, i))
ExecChoiceAt(i)  == Exec(ChoiceOps, i, execute_choice_instr(M, i))
ExecIndexedChoiceAt(i) == Exec(IndexedChoiceOps, i, execute_indexed_choice_instr(M, i))
ExecIndexingAt(i) == Exec(IndexingOps, i, execute_indexing_instr(M, i))
ExecCutAt(i)     == Exec(CutOps, i, execute_cut_instr(M, i))
ExecBuiltInAt(i) == Exec(BuiltInOps, i, execute_built_in_instr(M, i))
ExecArithAt(i)   == Exec(ArithOps, i, execute_arith_instr(M, i))

ExecFact    == ExecFactAt(fetch(M, scenario))
ExecQuery   == ExecQueryAt(fetch(M, scenario))
ExecControl == ExecControlAt(fetch(M, scenario))
ExecChoice  == ExecChoiceAt(fetch(M, scenario))
ExecIndexedChoice == ExecIndexedChoiceAt(fetch(M, scenario))
ExecIndexing == ExecIndexingAt(fetch(M, scenario))
ExecCut     == ExecCutAt(fetch(M, scenario))
ExecBuiltIn == ExecBuiltInAt(fetch(M, scenario))
ExecArith   == ExecArithAt(fetch(M, scenario))

(* print (io.rs 705-774): the user is asked for the next solution when the *)
(* query has variables and the OR-stack is not empty; the machine then     *)
(* resumes at the newest choice point                                      *)
has_vars(q) ==
    \E k \in DOMAIN q :
        /\ q[k].op = "Query"
        /\ \E j \in DOMAIN q[k].is : q[k].is[j].op \in {"PutVariable", "SetVariable"}

ContinueQuery ==
    /\ status = "succeeded" /\ b > 0
    /\ has_vars(queries[scenario])
    /\ Commit([M EXCEPT !.p = OrFrame(M, b - 1).bp, !.status = "running"])
    /\ obs' = [obs EXCEPT !.op = "", !.snap = NoSnap]
    /\ UNCHANGED scenario

(* a reset that forgets the heap and the trail, for comparison *)
reset_stacks_only(m) ==
    [NewMachine EXCEPT !.interms = m.interms, !.call_policy = m.call_policy,
                       !.cut_policy = m.cut_policy, !.heap = m.heap,
                       !.trail = m.trail, !.tr = m.tr]

(* MachineState::reset (machine_state_impl.rs 2031-2051): the policies and *)
(* the intermediate values are no part of what it resets.                  *)
reset(m) ==
    [NewMachine EXCEPT !.interms = m.interms, !.call_policy = m.call_policy,
                       !.cut_policy = m.cut_policy, !.output = <<>>]

(* the top level resets the machine state between two queries and runs the *)
(* next query under the default policies                                   *)
machine_reset(m) ==
    [reset(m) EXCEPT !.call_policy = DefaultCallPolicy,
                     !.cut_policy = DefaultCutPolicy]

Reset ==
    /\ status \in {"succeeded", "failed", "exception"}
    /\ Commit(machine_reset(M))
    /\ scenario' = 0 /\ obs' = [NoObs EXCEPT !.op = "reset", !.pre = M]

Next ==
    \/ SubmitQuery \/ ExecFact \/ ExecQuery \/ ExecControl \/ ExecChoice
    \/ ExecCut \/ ExecBuiltIn \/ ExecArith \/ ExecIndexedChoice \/ ExecIndexing
    \/ ContinueQuery \/ Reset

Spec == Init /\ [][Next]_vars

----------------------------------------------------------------------------
(* Terms.  term_of reads the term at address a as a tree; with anon the    *)
(* unbound variables are read as anonymous, otherwise each is the cell it  *)
(* is.  ball_term reads the ball, whose cells are addressed from its       *)
(* origin on.                                                              *)

Var(c)        == [f |-> "$var", args |-> <<>>, c |-> c]
Con(c)        == [f |-> "$con", args |-> <<>>, c |-> c]
Fun(f, args)  == [f |-> f, args |-> args, c |-> EmptyList]

RECURSIVE term_of(_, _, _)
term_of(m, a, anon) ==
    LET d == store(m, deref(m, a))
    IN  CASE is_ref(d) -> Var(IF anon THEN HeapCell(0) ELSE d)
          [] d.t = "Str" ->
               Fun(HeapAt(m, d.a).s,
                   [k \in 1 .. HeapAt(m, d.a).a |-> term_of(m, HeapCell(d.a + k), anon)])
          [] d.t = "Lis" ->
               Fun(".", <<term_of(m, HeapCell(d.a), anon),
                          term_of(m, HeapCell(d.a + 1), anon)>>)
          [] OTHER -> Con(d)

ball_term(bl) ==
    term_of([heap |-> [k \in 1 .. bl.origin |-> HeapCell(k - 1)] \o bl.cells,
             and_stack |-> <<>>],
            HeapCell(bl.origin), TRUE)

----------------------------------------------------------------------------
(* Backtracking                                                            *)

(* C1: when an instruction has restored a choice point (RetryMeElse,       *)
(* TrustMe and their default forms: heap truncated to the frame's h,       *)
(* unwind_trail over [frame.tr, tr)), every heap cell below the recorded h *)
(* and every cell of an environment frame that was live when the choice    *)
(* point was pushed holds the value it had then; so every variable unbound *)
(* then is unbound again.                                                  *)
C1_BacktrackRestores ==
    obs.op \in RestoreOps =>
        /\ \A k \in DOMAIN obs.snap.heap :
              k \in DOMAIN heap /\ heap[k] = obs.snap.heap[k]
        /\ \A fr \in obs.snap.live :
              \A sc \in DOMAIN obs.snap.and_stack[fr + 1].perms :
                  and_stack[fr + 1].perms[sc] = obs.snap.and_stack[fr + 1].perms[sc]

----------------------------------------------------------------------------
(* Exceptions                                                              *)

(* C3: in catch/3, GetBall (28) puts a copy of the ball on the heap; when  *)
(* Unify (36) has unified it with Catcher, Catcher is the thrown term, the *)
(* ball is erased (38) and Recovery is called (41) with the ball empty;    *)
(* when Unify has failed, Recovery is not called, DefaultTrustMe (42) and  *)
(* UnwindStack (43) follow with the ball kept, and the stack is unwound to *)
(* the block that encloses the catch.  So catch(throw(a), X, display(X))   *)
(* and catch(throw(f(a)), f(X), display(X)) print a, catch(throw(a), b,    *)
(* display(rec)) prints nothing and ends with the ball a, and a catch      *)
(* around it with the catcher a runs its own recovery only.                *)
C3_CatchRecovery ==
    /\ obs.op = "GetBall" /\ p = PtrAdd(obs.pre.p, 1) =>
          term_of(M, HeapCell(Len(obs.pre.heap)), TRUE) = ball_term(obs.pre.ball)
    /\ status = "running" /\ p = DirEntry(37) =>
          term_of(M, registers[2], FALSE) = term_of(M, registers[1], FALSE)
    /\ status = "running" /\ p \in {DirEntry(39), DirEntry(40), DirEntry(41)} =>
          ball.cells = <<>>
    /\ obs.op = "Unify" /\ obs.pre.p = DirEntry(36) /\ p # DirEntry(37) =>
          p = DirEntry(42) /\ ball = obs.pre.ball /\ ball.cells # <<>>
    /\ obs.op = "UnwindStack" /\ obs.pre.p = DirEntry(43) =>
          ball = obs.pre.ball /\ ball.cells # <<>> /\ b = obs.pre.block
    /\ scenario \in {2, 19} /\ status \notin {"idle", "running"} =>
          status = "succeeded" /\ output = <<Atom("a")>>
    /\ scenario = 3 =>
          /\ output = <<>>
          /\ status \notin {"idle", "running"} =>
                status = "exception" /\ ball_term(ball) = Con(Atom("a"))
    /\ scenario = 4 =>
          /\ \A k \in DOMAIN output : output[k] # Atom("r1")
          /\ status \notin {"idle", "running"} =>
                status = "succeeded" /\ output = <<Atom("r2")>>

(* the inner catch has let the ball pass and the outer one has run its     *)
(* recovery                                                                *)
C3_OuterRecoveryRan ==
    scenario = 4 /\ status = "succeeded" /\ output = <<Atom("r2")>> /\ ball.cells = <<>>

(* C8: SetBall copies the thrown term into the ball, whose origin is the   *)
(* heap top; UnwindStack sets b to the block and keeps exactly the first   *)
(* block frames of the OR-stack, so the choice points pushed inside the    *)
(* innermost block are dropped and the others stay, and the machine fails: *)
(* it resumes at the alternative of the newest frame left or, with block   *)
(* = 0, ends the query with the OR-stack empty and the ball still set.     *)
C8_ThrowUnwinds ==
    /\ obs.op = "SetBall" =>
          /\ ball.origin = Len(obs.pre.heap)
          /\ ball_term(ball) = term_of(obs.pre, obs.pre.registers[1], TRUE)
    /\ obs.op = "UnwindStack" =>
          /\ b = obs.pre.block
          /\ obs.pre.block <= Len(obs.pre.or_stack)
          /\ or_stack = SubSeq(obs.pre.or_stack, 1, obs.pre.block)
          /\ ball = obs.pre.ball /\ ball.cells # <<>>
          /\ IF obs.pre.block = 0
             THEN status = "exception" /\ or_stack = <<>>
             ELSE status = "running" /\ p = OrFrame(M, b - 1).bp

(* a throw inside a catch that is itself behind an older choice point: the *)
(* choice point of the goal is dropped, the older ones stay                *)
C8_InnerDroppedOuterKept ==
    /\ obs.op = "UnwindStack"
    /\ Len(obs.pre.or_stack) = 3 /\ obs.pre.block = 2 /\ Len(or_stack) = 2

----------------------------------------------------------------------------
(* setup_call_cleanup/3                                                    *)

Final == {"succeeded", "failed", "exception"}

Times(c) == Cardinality({k \in DOMAIN output : output[k] = Atom(c)})

(* C4: the cleanup goal of a setup_call_cleanup/3 activation is run        *)
(* exactly once: never twice at any moment, and once when the query has    *)
(* ended after G succeeded without choice points (9), failed (10), threw   *)
(* (11, the ball still propagates), in a nested activation (12, both       *)
(* cleanups) and when the choice points G left are exhausted (13, 22).     *)
(* GetCleanerCall takes the last installed cleaner, only when              *)
(* b <= its cutoff + 1, and resets block to the recorded one; otherwise    *)
(* the cleaner stack is unchanged (22: the cleaner of the first activation *)
(* stays while the second activation runs its own).                        *)
C4_CleanupExactlyOnce ==
    /\ scenario \in {9, 10, 11, 13, 22} => Times("c") <= 1
    /\ scenario = 12 => Times("c1") <= 1 /\ Times("c2") <= 1
    /\ scenario = 9 /\ status \in Final => status = "succeeded" /\ Times("c") = 1
    /\ scenario = 10 /\ status \in Final => status = "failed" /\ Times("c") = 1
    /\ scenario = 11 /\ status \in Final =>
          /\ status = "exception" /\ Times("c") = 1
          /\ ball_term(ball) = Con(Atom("a"))
    /\ scenario = 12 /\ status \in Final =>
          status = "succeeded" /\ Times("c1") = 1 /\ Times("c2") = 1
    /\ scenario \in {13, 22} /\ status \in Final /\ b = 0 => Times("c") = 1
    /\ scenario \in {9, 10, 11, 12, 13, 22} /\ status \in Final /\ b = 0 =>
          cut_policy.cont_pts = <<>>
    /\ obs.op = "GetCleanerCall" =>
          LET cps == obs.pre.cut_policy.cont_pts
              n   == Len(cps)
          IN  IF Len(cut_policy.cont_pts) < n
              THEN /\ cut_policy.cont_pts = SubSeq(cps, 1, n - 1)
                   /\ obs.pre.b <= cps[n].b + 1
                   /\ block = cps[n].block
                   /\ store(M, deref(M, obs.pre.registers[1])) = cps[n].addr
                   /\ p = PtrAdd(obs.pre.p, 1)
              ELSE /\ cut_policy.cont_pts = cps
                   /\ n > 0 => obs.pre.b > cps[n].b + 1

(* the inner cleanup of the nested activation has run after the outer      *)
(* cleaner was taken, and both have run once                               *)
C4_NestedCleanersRan ==
    /\ scenario = 12 /\ status = "succeeded"
    /\ Times("c1") = 1 /\ Times("c2") = 1

----------------------------------------------------------------------------
(* call_with_inference_limit/3                                             *)

(* C5: call_with_inference_limit(G, 0, R), for G = display(x) (14) and     *)
(* G = m(X) (21): the call of G at 428 raises inference_limit_exceeded(B)  *)
(* and goes to throw/1; nothing is ever written, the query neither fails   *)
(* nor ends with an exception, every unwind_stack finds a block (the       *)
(* builtin's own); at the end R is the atom inference_limit_exceeded, X is *)
(* unbound, the ball is erased and no choice point is left.                *)
C5_LimitZero ==
    scenario \in {14, 21} =>
        /\ output = <<>>
        /\ status \notin {"failed", "exception", "panic"}
        /\ obs.op = "CallClause" /\ obs.pre.p = DirEntry(428) =>
              /\ p = DirEntry(59)
              /\ term_of(M, registers[1], TRUE) =
                    Fun("inference_limit_exceeded", <<Con(Usize(obs.pre.b - 1))>>)
        /\ obs.op = "UnwindStack" => obs.pre.block > 0 /\ status = "running"
        /\ status = "succeeded" =>
              /\ term_of(M, HeapCell(2), TRUE) = Con(Atom("inference_limit_exceeded"))
              /\ scenario = 21 => term_of(M, HeapCell(1), FALSE) = Var(HeapCell(1))
              /\ ball.cells = <<>> /\ b = 0

(* the limit-0 call over m(X) has ended with R bound *)
C5_LimitZeroAnswered ==
    /\ scenario = 21 /\ status = "succeeded"
    /\ heap[3] = Atom("inference_limit_exceeded")

----------------------------------------------------------------------------
(* Policies                                                                *)

----------------------------------------------------------------------------
(* duplicate_term/2 over the terms the put and set instructions build.     *)
(* The machine starts in a clause body with one environment frame whose    *)
(* cell Y1 is unbound and is what X1..X3 hold; terms are built into X1..X3 *)
(* until the heap holds MaxDupCells cells, and duplicate_term(X1, X2) is   *)
(* called on what the registers hold.                                      *)

MaxDupCells == 4
DupRegs     == 1 .. 3

DupStart ==
    [run_query(and_stack_push(NewMachine, 1, 1),
               <<put_var(perm_v(1), 1), put_value(perm_v(1), 2),
                 put_value(perm_v(1), 3)>>, 1)
        EXCEPT !.status = "building"]

(* the instructions that write one argument cell of the term built into   *)
(* Xr: a term never has itself as an argument                              *)
DupSets(r) ==
    {set_variable(temp_v(3)), set_constant(Atom("a")), set_value(perm_v(1))}
    \cup {set_value(temp_v(x)) : x \in DupRegs \ {r}}

DupInit == Start(DupStart) /\ scenario = 0 /\ obs = NoObs

Build(is) ==
    /\ status = "building"
    /\ Len(heap) + Len(is) - (IF is[1].op = "PutList" THEN 1 ELSE 0) <= MaxDupCells
    /\ Commit(run_query(M, is, 1))
    /\ UNCHANGED <<scenario, obs>>

BuildVar ==
    \E r \in DupRegs : Build(<<put_var(temp_v(r), r)>>)

BuildStr1 ==
    \E r \in DupRegs : \E x \in DupSets(r) : Build(<<put_structure("f", 1, temp_v(r)), x>>)

BuildStr2 ==
    \E r \in DupRegs : \E x \in DupSets(r), y \in DupSets(r) :
        Build(<<put_structure("g", 2, temp_v(r)), x, y>>)

BuildLis ==
    \E r \in DupRegs : \E x \in DupSets(r), y \in DupSets(r) :
        Build(<<put_list(temp_v(r)), x, y>>)

BuildStackVar ==
    \E r \in DupRegs :
        /\ status = "building"
        /\ Commit(run_query(M, <<put_value(perm_v(1), r)>>, 1))
        /\ UNCHANGED <<scenario, obs>>

DuplicateTerm ==
    /\ status = "building"
    /\ Commit([call_clause(M, DuplicateTermCT, 2, FALSE) EXCEPT !.status = "copied"])
    /\ obs' = [NoObs EXCEPT !.op = "DuplicateTerm", !.pre = M]
    /\ UNCHANGED scenario

(* the copier alone, on the term in X1 *)
CopyTerm ==
    /\ status = "building"
    /\ Commit([copier_duplicate_term(M, registers[1]) EXCEPT !.status = "copied"])
    /\ obs' = [NoObs EXCEPT !.op = "copier", !.pre = M]
    /\ UNCHANGED scenario

DupNext ==
    \/ BuildVar \/ BuildStr1 \/ BuildStr2 \/ BuildLis \/ BuildStackVar
    \/ DuplicateTerm \/ CopyTerm

DupSpec == DupInit /\ [][DupNext]_vars

(* a term as the sequence of its nodes in preorder *)
RECURSIVE term_tokens(_)
RECURSIVE args_tokens(_, _)
term_tokens(t) == <<[f |-> t.f, n |-> Len(t.args), c |-> t.c]>> \o args_tokens(t.args, 1)
args_tokens(args, k) ==
    IF k > Len(args) THEN <<>> ELSE term_tokens(args[k]) \o args_tokens(args, k + 1)

IsVariant(src, cpy) ==
    /\ Len(src) = Len(cpy)
    /\ \A k \in DOMAIN src :
          /\ src[k].f = cpy[k].f /\ src[k].n = cpy[k].n
          /\ src[k].f # "$var" => src[k].c = cpy[k].c
    /\ \A j, k \in DOMAIN src :
          src[j].f = "$var" /\ src[k].f = "$var" =>
              (src[j].c = src[k].c <=> cpy[j].c = cpy[k].c)

FreshAbove(cpy, old_h) ==
    \A k \in DOMAIN cpy :
        cpy[k].f = "$var" => cpy[k].c.t = "HeapCell" /\ cpy[k].c.a >= old_h

CopyOf(pre, copied, old_h) ==
    /\ SubSeq(copied.heap, 1, old_h) = pre.heap
    /\ copied.and_stack = pre.and_stack
    /\ IsVariant(term_tokens(term_of(pre, pre.registers[1], FALSE)),
                 term_tokens(term_of(copied, HeapCell(old_h), FALSE)))
    /\ FreshAbove(term_tokens(term_of(copied, HeapCell(old_h), FALSE)), old_h)

(* C7: duplicate_term(T, T2) with T2 unbound.  The copier leaves the heap  *)
(* below the old top and the environment as they were and puts at the old  *)
(* top a term with the functors, arities and constants of T whose          *)
(* variables are unbound heap cells at or above the old top, two positions *)
(* holding the same one iff they hold the same variable in T; the call     *)
(* succeeds and T2 is then that term.                                      *)
C7_CopyIsFreshVariant ==
    obs.op = "DuplicateTerm" /\ is_ref(store(obs.pre, deref(obs.pre, obs.pre.registers[2]))) =>
        /\ CopyOf(obs.pre, copier_duplicate_term(obs.pre, obs.pre.registers[1]),
                  Len(obs.pre.heap))
        /\ ~fail
        /\ Len(heap) = Len(copier_duplicate_term(obs.pre, obs.pre.registers[1]).heap)
        /\ term_of(M, obs.pre.registers[2], FALSE)
              = term_of(M, HeapCell(Len(obs.pre.heap)), FALSE)
        /\ term_of(M, obs.pre.registers[2], TRUE)
              = term_of(obs.pre, obs.pre.registers[1], TRUE)

(* g(S, S) or [S|S] with S = f(X) has been copied: a structure met twice   *)
(* and a variable below it                                                 *)
C7_SharedStructureCopied ==
    /\ obs.op = "DuplicateTerm"
    /\ is_ref(store(obs.pre, deref(obs.pre, obs.pre.registers[2])))
    /\ LET t == term_of(obs.pre, obs.pre.registers[1], FALSE)
       IN  /\ Len(t.args) = 2
           /\ t.args[1] = t.args[2]
           /\ t.args[1].f = "f" /\ t.args[1].args[1].f = "$var"

(* C23: the copier leaves the original unchanged: when it returns, every   *)
(* heap cell below the heap top recorded at its start and every cell of    *)
(* the environment stack holds the value it held before the call.          *)
C23_OriginalUnchanged ==
    obs.op = "copier" =>
        /\ SubSeq(heap, 1, Len(obs.pre.heap)) = obs.pre.heap
        /\ and_stack = obs.pre.and_stack

(* a structure whose argument is the unbound variable Y1 has been copied:  *)
(* its header was forwarded and Y1 pointed at its copy                     *)
C23_HeaderAndStackVariableRestored ==
    /\ obs.op = "copier"
    /\ store(obs.pre, deref(obs.pre, obs.pre.registers[1])).t = "Str"
    /\ \E k \in 1 .. Len(obs.pre.heap) :
          /\ obs.pre.heap[k].t = "NamedStr"
          /\ store(obs.pre, deref(obs.pre, HeapCell(k))) = StackCell(0, 1)
    /\ Len(heap) >= Len(obs.pre.heap) + 3

----------------------------------------------------------------------------
(* call/N over goals of every arity.  A goal p(1, ..., narity) is built    *)
(* into A1; then either call/N is called through the code directory with  *)
(* the goal in A1 and the extra arguments behind it (the entry is          *)
(* InternalCallN at 0), or the instruction CallClause(CallN, arity) is     *)
(* executed with the extra arguments in A1.. and the goal in register      *)
(* arity (obs.pre then holds that arity as num_of_args).  Each step ends   *)
(* as the loop ends it: a failed instruction backtracks.                   *)

MaxGoalArity == 63
MaxCallN     == 62

RECURSIVE goal_args(_)
goal_args(k) == IF k = 0 THEN <<>> ELSE goal_args(k - 1) \o <<set_constant(Integer(k))>>

goal_query(narity) ==
    IF narity = 0 THEN <<put_constant(Atom("p"), temp_v(1))>>
    ELSE <<put_structure("p", narity, temp_v(1))>> \o goal_args(narity)

(* the extra arguments x put into the registers from .. from + n - 1 *)
extra_args(from, n) == [k \in 1 .. n |-> put_constant(Atom("x"), temp_v(from + k - 1))]

CallInit == Init

PutGoal ==
    /\ status = "idle"
    /\ \E narity \in 0 .. MaxGoalArity :
          Commit([run_query(M, goal_query(narity), 1) EXCEPT !.status = "goal"])
    /\ UNCHANGED <<scenario, obs>>

called_through_directory(m, n) ==
    [call_clause(run_query(m, extra_args(2, n), 1), Named("call", n + 1), n + 1, FALSE)
        EXCEPT !.status = "entered"]

CallThroughDirectory ==
    /\ status = "goal"
    /\ \E n \in 0 .. (MaxCallN - 1) : Commit(called_through_directory(M, n))
    /\ UNCHANGED <<scenario, obs>>

ExecInternalCallN ==
    /\ status = "entered"
    /\ p.k = "DirEntry" /\ code_at(p.i) = InternalCallN
    /\ Commit([after_instr(execute_built_in_instr(M, InternalCallN))
                  EXCEPT !.status = "called"])
    /\ obs' = [NoObs EXCEPT !.op = "InternalCallN", !.pre = M]
    /\ UNCHANGED scenario

laid_out_inline(m, arity) ==
    run_query(m, <<put_value(temp_v(1), arity)>> \o extra_args(1, arity - 1), 1)

called_inline(m1, arity) ==
    [after_instr(execute_ctrl_instr(m1, call_n(arity))) EXCEPT !.status = "called"]

ExecCallN ==
    /\ status = "goal"
    /\ \E arity \in 1 .. (MaxCallN + 1) :
          /\ Commit(called_inline(laid_out_inline(M, arity), arity))
          /\ obs' = [NoObs EXCEPT !.op = "CallN",
                                  !.pre = [laid_out_inline(M, arity)
                                              EXCEPT !.num_of_args = arity]]
    /\ UNCHANGED scenario

CallNext ==
    \/ PutGoal \/ CallThroughDirectory \/ ExecInternalCallN \/ ExecCallN

CallSpec == CallInit /\ [][CallNext]_vars

(* the register that holds the goal when the instruction starts, the arity *)
(* of the goal and the number of extra arguments                           *)
GoalReg(pre, op) == IF op = "InternalCallN" THEN 1 ELSE pre.num_of_args

GoalArity(pre, op) ==
    IF store(pre, deref(pre, pre.registers[GoalReg(pre, op)])).t = "Str"
    THEN HeapAt(pre, store(pre, deref(pre, pre.registers[GoalReg(pre, op)])).a).a
    ELSE 0

EffectiveArity(pre, op) == GoalArity(pre, op) + pre.num_of_args - 1

(* the registers call/N reads or writes *)
CallNRegs(pre, op) ==
    IF op = "InternalCallN"
    THEN (1 .. pre.num_of_args)
         \cup setup_call_n_regs(rotate_goal(pre, pre.num_of_args + 1), pre.num_of_args)
    ELSE setup_call_n_regs(pre, pre.num_of_args)

(* the machine is at the entry of throw/1 with the error term in A1 *)
RepresentationErrorRaised ==
    /\ ~fail /\ p = DirEntry(59)
    /\ term_of(M, registers[1], TRUE)
          = Fun("representation_error", <<Con(Atom("exceeds_max_arity"))>>)

(* C9: after call/N, through the code directory or as the instruction,     *)
(* representation_error(exceeds_max_arity) has been raised exactly when    *)
(* the arity of the goal plus the number of extra arguments is above 62;   *)
(* then every argument register holds what it held before; otherwise all   *)
(* registers read or written are among 1..63.                              *)
C9_ArityErrorAbove62 ==
    obs.op \in {"InternalCallN", "CallN"} =>
        /\ RepresentationErrorRaised <=> EffectiveArity(obs.pre, obs.op) > 62
        /\ EffectiveArity(obs.pre, obs.op) > 62 =>
              \A i \in 1 .. 63 : registers[i] = obs.pre.registers[i]
        /\ EffectiveArity(obs.pre, obs.op) <= 62 =>
              CallNRegs(obs.pre, obs.op) \subseteq 1 .. 63

----------------------------------------------------------------------------
(* LayoutSpec: call/N is entered through the code directory with A1 a goal *)
(* (the atom c, c(1), c(1, 2), p(1), an unbound variable or the number 7)  *)
(* and up to MaxLayoutExtras extra arguments among a, b and 3; then        *)
(* InternalCallN is executed.  c/2 is a predicate of the program, p/N is   *)
(* not.                                                                    *)

MaxLayoutExtras == 2

LayoutGoals ==
    { <<put_constant(Atom("c"), temp_v(1))>>,
      <<put_structure("c", 1, temp_v(1)), set_constant(Integer(1))>>,
      <<put_structure("c", 2, temp_v(1)), set_constant(Integer(1)),
        set_constant(Integer(2))>>,
      <<put_structure("p", 1, temp_v(1)), set_constant(Integer(1))>>,
      <<put_var(temp_v(1), 1)>>,
      <<put_constant(Integer(7), temp_v(1))>> }

LayoutExtras ==
    UNION {[1 .. n -> {Atom("a"), Atom("b"), Integer(3)}] : n \in 0 .. MaxLayoutExtras}

LayoutInit == Init

PutLayout ==
    /\ status = "idle"
    /\ \E g \in LayoutGoals, es \in LayoutExtras :
          LET puts == [j \in 1 .. Len(es) |-> put_constant(es[j], temp_v(j + 1))]
          IN  Commit([call_clause(run_query(M, g \o puts, 1),
                                  Named("call", Len(es) + 1), Len(es) + 1, FALSE)
                         EXCEPT !.status = "entered"])
    /\ UNCHANGED <<scenario, obs>>

LayoutNext == PutLayout \/ ExecInternalCallN

LayoutSpec == LayoutInit /\ [][LayoutNext]_vars

(* the goal in A1 when InternalCallN starts, and the number of the extras *)
LayoutGoal   == store(obs.pre, deref(obs.pre, obs.pre.registers[1]))
LayoutK      == IF LayoutGoal.t = "Str" THEN HeapAt(obs.pre, LayoutGoal.a).a ELSE 0
LayoutM      == obs.pre.num_of_args - 1
LayoutName   == IF LayoutGoal.t = "Str" THEN HeapAt(obs.pre, LayoutGoal.a).s
                ELSE LayoutGoal.s
LayoutCallable == LayoutGoal.t \in {"Str", "Atom"}

(* the machine is at the entry of throw/1 with an error term of that name  *)
(* in A1                                                                   *)
ErrorRaised(name) ==
    /\ ~fail /\ p = DirEntry(59)
    /\ term_of(M, registers[1], TRUE).f = name
       \/ term_of(M, registers[1], TRUE) = Con(Atom(name))

(* C38: after InternalCallN with A1 a goal f(s1..sk), or the atom f with   *)
(* k = 0, and the extra arguments e1..em in A2..A(m+1), k + m <= 62, the   *)
(* registers 1..k hold s1..sk, the registers k+1..k+m hold e1..em in their *)
(* order, and control is at the predicate f/(k+m); an unbound goal raises  *)
(* instantiation_error, and a goal that is neither an atom nor a structure *)
(* raises type_error(callable, _).                                         *)
C38_CallNLayout ==
    obs.op = "InternalCallN" =>
        /\ LayoutCallable /\ LayoutK + LayoutM <= 62 =>
              /\ \A i \in 1 .. LayoutK :
                    registers[i] = as_addr(HeapAt(obs.pre, LayoutGoal.a + i),
                                           LayoutGoal.a + i)
              /\ \A j \in 1 .. LayoutM :
                    registers[LayoutK + j] = obs.pre.registers[j + 1]
              /\ code_dir_get(LayoutName, LayoutK + LayoutM) >= 0 =>
                    /\ ~fail /\ num_of_args = LayoutK + LayoutM
                    /\ p = DirEntry(code_dir_get(LayoutName, LayoutK + LayoutM))
        /\ is_ref(LayoutGoal) => ErrorRaised("instantiation_error")
        /\ ~LayoutCallable /\ ~is_ref(LayoutGoal) => ErrorRaised("type_error")

----------------------------------------------------------------------------
(* The division instructions over operands of every kind.  The first      *)
(* MaxArithTarget instructions may each load a number into an intermediate *)
(* value (an addition of zero), and an expression may be put in X1; then   *)
(* one division instruction is executed, with operands among the number    *)
(* literals between -1 and MaxArithInt, 1/2, 0.0 and 0.5, a Float that is  *)
(* not finite, the intermediate values 1..MaxArithTarget and, once an      *)
(* expression has been put there, the register X1.                         *)

MaxArithInt    == 1
MaxArithTarget == 1

DivOps == {"RDiv", "FIDiv", "IDiv", "Div", "Mod", "Rem"}

ArithLiterals ==
    {Integer(k) : k \in -1 .. MaxArithInt}
    \cup {Rational(1, 2), Float(0, 1), Float(1, 2), NaN}

ArithOperands(m) ==
    {AtNumber(n) : n \in ArithLiterals}
    \cup {AtInterm(k) : k \in 1 .. MaxArithTarget}
    \cup (IF m.heap = <<>> THEN {} ELSE {AtReg(temp_v(1))})

ArithInit == Init

(* the expressions put in X1: 1 / 0, 0 // 1, 1 // 0 and 1 // 1 *)
ArithExpressions ==
    { <<"/", 1, 0>>, <<"//", 0, 1>>, <<"//", 1, 0>>, <<"//", 1, 1>> }

PutExpression ==
    /\ status = "idle" /\ heap = <<>>
    /\ \E x \in ArithExpressions :
          Commit(run_query(M, <<put_structure(x[1], 2, temp_v(1)),
                                set_constant(Integer(x[2])),
                                set_constant(Integer(x[3]))>>, 1))
    /\ UNCHANGED <<scenario, obs>>

(* the instruction at p loads n into the intermediate value p + 1 *)
LoadInterm ==
    /\ status = "idle" /\ p.k = "TopLevel" /\ p.i < MaxArithTarget
    /\ \E n \in ArithLiterals :
          Commit(execute_arith_instr(
                     M, ArithInstr("Add", AtNumber(n), AtNumber(Integer(0)), p.i + 1)))
    /\ UNCHANGED <<scenario, obs>>

ExecDivision ==
    /\ status = "idle" /\ p.k = "TopLevel"
    /\ \E op \in DivOps, a1 \in ArithOperands(M), a2 \in ArithOperands(M),
          t \in 1 .. MaxArithTarget :
          /\ Commit([execute_arith_instr(M, ArithInstr(op, a1, a2, t))
                        EXCEPT !.status = "divided"])
          /\ obs' = [NoObs EXCEPT !.op = op, !.instr = ArithInstr(op, a1, a2, t),
                                  !.pre = M]
    /\ UNCHANGED scenario

ArithNext == PutExpression \/ LoadInterm \/ ExecDivision

ArithSpec == ArithInit /\ [][ArithNext]_vars

(* the operands of the division just executed, as numbers *)
Dividend == get_number(obs.pre, obs.instr.a1)
Divisor  == get_number(obs.pre, obs.instr.a2)

DivisionDone == obs.op \in DivOps
ZeroDivisor  == DivisionDone /\ Divisor.ok /\ num_is_zero(Divisor.v)

(* The instruction has raised the error hcv: the target and every other    *)
(* intermediate value are as before, p is at the entry of throw/1 and not  *)
(* at the next instruction, and A1 refers to the error term, laid out at   *)
(* the former top of the heap.                                             *)
ArithErrorRaised(hcv) ==
    /\ interms = obs.pre.interms
    /\ ~fail /\ p = DirEntry(59) /\ p # PtrAdd(obs.pre.p, 1)
    /\ registers[1] = HeapCell(Len(obs.pre.heap))
    /\ heap = obs.pre.heap \o hcv

IntegerOperands == Dividend.v.t = "Integer" /\ Divisor.v.t = "Integer"

(* C10 as stated: every division instruction (//, div, mod, rem, rdiv, /)   *)
(* whose divisor is zero raises evaluation_error(zero_divisor), leaves its  *)
(* target intermediate value unwritten and p not advanced, and transfers    *)
(* control to throw/1 with A1 referring to the error term.                  *)
C10_ZeroDivisorRaises == ZeroDivisor => ArithErrorRaised(zero_divisor)

(* C10, amended: a division instruction whose divisor is zero raises an    *)
(* error, without writing its target or advancing p, at throw/1 with A1    *)
(* referring to the error term.  The error is that of the dividend when    *)
(* the dividend has no value; evaluation_error(zero_divisor) for / always, *)
(* for //, div, mod and rem when both operands are integers and for rdiv   *)
(* when the dividend is finite; evaluation_error(expected_integer_args)    *)
(* for //, div, mod and rem with an operand that is not an integer; and    *)
(* instantiation_error for rdiv with a dividend that is not finite.        *)
C10_ZeroDivisorError ==
    ZeroDivisor =>
        IF ~Dividend.ok THEN ArithErrorRaised(Dividend.err)
        ELSE CASE obs.op = "Div" -> ArithErrorRaised(zero_divisor)
               [] obs.op = "RDiv" ->
                    IF num_finite(Dividend.v) THEN ArithErrorRaised(zero_divisor)
                    ELSE ArithErrorRaised(instantiation_err)
               [] OTHER ->
                    IF IntegerOperands THEN ArithErrorRaised(zero_divisor)
                    ELSE ArithErrorRaised(expected_integer_args)

(* an integer division of a Float, held by an intermediate value, by the   *)
(* integer zero                                                            *)
C10_FloatByIntegerZero ==
    /\ ZeroDivisor /\ obs.op = "IDiv"
    /\ obs.instr.a1 = AtInterm(1) /\ obs.pre.p = TopLevel(1)
    /\ Dividend.ok /\ Dividend.v = Float(1, 2) /\ Divisor.v = Integer(0)
    /\ ArithErrorRaised(expected_integer_args)

----------------------------------------------------------------------------
(* The integer-only instructions over operands of every kind: the shifts,  *)
(* the bitwise operations and the integer divisions, with operands among   *)
(* the integers 0..MaxBitInt, 1/2 and 0.5, the intermediate values         *)
(* 1..MaxBitTarget and, once an expression has been put there, X1.         *)

MaxBitInt    == 2
MaxBitTarget == 1

IntegerOps == {"Shr", "Shl", "And", "Or", "Xor", "IDiv", "FIDiv", "Mod", "Rem"}

BitLiterals == {Integer(k) : k \in 0 .. MaxBitInt} \cup {Rational(1, 2), Float(1, 2)}

BitOperands(m) ==
    {AtNumber(n) : n \in BitLiterals}
    \cup {AtInterm(k) : k \in 1 .. MaxBitTarget}
    \cup (IF m.heap = <<>> THEN {} ELSE {AtReg(temp_v(1))})

(* the expressions put in X1: 1 >> 1, 1 >> 0.5, 1 \/ 2 and 0.5 \/ 2 *)
BitExpressions ==
    { <<">>", Integer(1), Integer(1)>>, <<">>", Integer(1), Float(1, 2)>>,
      <<"\\/", Integer(1), Integer(2)>>, <<"\\/", Float(1, 2), Integer(2)>> }

BitInit == Init

PutBitExpression ==
    /\ status = "idle" /\ heap = <<>>
    /\ \E x \in BitExpressions :
          Commit(run_query(M, <<put_structure(x[1], 2, temp_v(1)),
                                set_constant(x[2]), set_constant(x[3])>>, 1))
    /\ UNCHANGED <<scenario, obs>>

LoadBitInterm ==
    /\ status = "idle" /\ p.k = "TopLevel" /\ p.i < MaxBitTarget
    /\ \E n \in BitLiterals :
          Commit(execute_arith_instr(
                     M, ArithInstr("Add", AtNumber(n), AtNumber(Integer(0)), p.i + 1)))
    /\ UNCHANGED <<scenario, obs>>

ExecIntegerOp ==
    /\ status = "idle" /\ p.k = "TopLevel"
    /\ \E op \in IntegerOps, a1 \in BitOperands(M), a2 \in BitOperands(M),
          t \in 1 .. MaxBitTarget :
          /\ Commit([execute_arith_instr(M, ArithInstr(op, a1, a2, t))
                        EXCEPT !.status = "computed"])
          /\ obs' = [NoObs EXCEPT !.op = op, !.instr = ArithInstr(op, a1, a2, t),
                                  !.pre = M]
    /\ UNCHANGED scenario

BitNext == PutBitExpression \/ LoadBitInterm \/ ExecIntegerOp

BitSpec == BitInit /\ [][BitNext]_vars

(* the operands of the instruction just executed, as numbers *)
FirstOperand  == get_number(obs.pre, obs.instr.a1)
SecondOperand == get_number(obs.pre, obs.instr.a2)

NonIntegerOperand ==
    /\ obs.op \in IntegerOps /\ FirstOperand.ok /\ SecondOperand.ok
    /\ (FirstOperand.v.t # "Integer" \/ SecondOperand.v.t # "Integer")

(* X1 holds an integer-only operation on an operand that is no integer *)
NonIntegerInExpression ==
    /\ obs.op \in IntegerOps /\ obs.pre.heap # <<>>
    /\ (obs.instr.a1.k = "Reg" \/ obs.instr.a2.k = "Reg")
    /\ (obs.pre.heap[2].t # "Integer" \/ obs.pre.heap[3].t # "Integer")

(* C11: an integer-only instruction (>>, <<, /\, \/, xor, //, div, mod,    *)
(* rem) one of whose operands is a Float or a Rational raises              *)
(* evaluation_error(expected_integer_args) and writes no result, a shift   *)
(* by a count that is no integer included; so does the evaluation of such  *)
(* an operation inside an expression.                                      *)
C11_NonIntegerOperandRaises ==
    /\ NonIntegerOperand => ArithErrorRaised(expected_integer_args)
    /\ NonIntegerInExpression /\ (obs.instr.a1.k = "Reg" \/ FirstOperand.ok)
          => ArithErrorRaised(expected_integer_args)

(* a shift of 1 by the count 0.5, the count held by an intermediate value *)
C11_ShiftByFloat ==
    /\ NonIntegerOperand /\ obs.op = "Shr"
    /\ FirstOperand.v = Integer(1)
    /\ obs.instr.a2 = AtInterm(1) /\ SecondOperand.v = Float(1, 2)
    /\ ArithErrorRaised(expected_integer_args)

(* C16: the Or instruction on two integers writes their bitwise inclusive  *)
(* OR to its target and moves to the next instruction, and \/ inside an    *)
(* expression evaluates to the bitwise inclusive OR of its operands.       *)
C16_OrIsInclusiveOr ==
    /\ obs.op = "Or" /\ FirstOperand.ok /\ SecondOperand.ok
       /\ FirstOperand.v.t = "Integer" /\ SecondOperand.v.t = "Integer"
          => /\ interms[obs.instr.t]
                   = Integer(biguint_or(FirstOperand.v.a, SecondOperand.v.a))
             /\ p = PtrAdd(obs.pre.p, 1)
    /\ obs.op \in IntegerOps /\ obs.instr.a1.k = "Reg"
       /\ obs.pre.heap = <<NamedStr(2, "\\/"), Integer(1), Integer(2)>>
          => FirstOperand = Ok(Integer(3))

----------------------------------------------------------------------------
(* And and Xor on integers of either sign and of byte representations of   *)
(* different lengths.  The operands are literals or the intermediate       *)
(* values 1..MaxWordTarget left by earlier instructions.                   *)

MaxWordTarget == 1
MaxWordSteps  == 2

WordWidth == 16

WordOps == {"And", "Xor"}

WordLiterals == {Integer(k) : k \in {-129, -128, -2, -1, 0, 1, 127, 128, 255, 256}}

WordOperands == {AtNumber(n) : n \in WordLiterals}
                \cup {AtInterm(k) : k \in 1 .. MaxWordTarget}

WordInit == Init

ExecWordOp ==
    /\ status = "idle" /\ p.k = "TopLevel" /\ p.i < MaxWordSteps
    /\ \E op \in WordOps, a1 \in WordOperands, a2 \in WordOperands,
          t \in 1 .. MaxWordTarget :
          /\ Commit(execute_arith_instr(M, ArithInstr(op, a1, a2, t)))
          /\ obs' = [NoObs EXCEPT !.op = op, !.instr = ArithInstr(op, a1, a2, t),
                                  !.pre = M]
    /\ UNCHANGED scenario

WordNext == ExecWordOp

WordSpec == WordInit /\ [][WordNext]_vars

(* the two's complement of n in WordWidth bits, and back *)
TwosOf(n)   == IF n >= 0 THEN n ELSE n + Pow2(WordWidth)
TwosBack(u) == IF u >= Pow2(WordWidth - 1) THEN u - Pow2(WordWidth) ELSE u

TwosAnd(x, y) == TwosBack(biguint_and(TwosOf(x), TwosOf(y)))
TwosXor(x, y) == TwosBack(biguint_xor(TwosOf(x), TwosOf(y)))

WordFits(n) == -Pow2(WordWidth - 1) <= n /\ n < Pow2(WordWidth - 1)

WordOperated ==
    /\ obs.op \in WordOps /\ FirstOperand.ok /\ SecondOperand.ok
    /\ FirstOperand.v.t = "Integer" /\ SecondOperand.v.t = "Integer"
    /\ WordFits(FirstOperand.v.a) /\ WordFits(SecondOperand.v.a)

(* C32: And and Xor on two integers write the two's complement bitwise AND *)
(* and XOR of the operands to the target, for operands of either sign and  *)
(* of byte representations of different lengths: -1 /\ 256 is 256.         *)
C32_TwosComplement ==
    WordOperated =>
        interms[obs.instr.t]
            = Integer(IF obs.op = "And"
                      THEN TwosAnd(FirstOperand.v.a, SecondOperand.v.a)
                      ELSE TwosXor(FirstOperand.v.a, SecondOperand.v.a))

----------------------------------------------------------------------------
(* functor/3 on arguments of every kind.  The three argument registers are *)
(* loaded with a term, a name and an arity; functor/3 is called; the name  *)
(* and the arity may then be replaced by fresh variables and functor/3     *)
(* called again, on the term the first call has left in X1.                *)

MaxFunctorArity == 2
MaxFunctorCalls == 2

FunctorTerms ==
    { <<put_var(temp_v(1), 1)>>,
      <<put_structure("f", 2, temp_v(1)), set_constant(Atom("a")), set_variable(temp_v(4))>>,
      <<put_structure("g", 1, temp_v(1)), set_variable(temp_v(4))>>,
      <<put_constant(Atom("c"), temp_v(1))>>,
      <<put_constant(Integer(1), temp_v(1))>>,
      <<put_list(temp_v(1)), set_constant(Atom("a")), set_constant(EmptyList)>> }

FunctorNames ==
    { <<put_var(temp_v(2), 2)>>, <<put_constant(Atom("f"), temp_v(2))>>,
      <<put_constant(Atom("c"), temp_v(2))>>, <<put_constant(Integer(1), temp_v(2))>> }

FunctorArities ==
    { <<put_var(temp_v(3), 3)>>, <<put_constant(Atom("a"), temp_v(3))>> }
    \cup { <<put_constant(Integer(k), temp_v(3))>> : k \in -1 .. MaxFunctorArity }

FunctorInit == Init

PutFunctorArgs ==
    /\ status = "idle" /\ heap = <<>> /\ registers[1] = HeapCell(0)
    /\ \E t \in FunctorTerms, n \in FunctorNames, a \in FunctorArities :
          Commit([run_query(M, t \o n \o a, 1) EXCEPT !.status = "loaded"])
    /\ UNCHANGED <<scenario, obs>>

(* the name and the arity are asked for again *)
PutFreshNameArity ==
    /\ status = "called" /\ obs.op = "Functor" /\ ~fail /\ p = TopLevel(1)
    /\ Commit([run_query(M, <<put_var(temp_v(2), 2), put_var(temp_v(3), 3)>>, 1)
                  EXCEPT !.status = "loaded"])
    /\ obs' = [obs EXCEPT !.op = ""]
    /\ UNCHANGED scenario

ExecFunctor ==
    /\ status = "loaded" /\ p.k = "TopLevel" /\ p.i < MaxFunctorCalls
    /\ Commit([call_clause(M, FunctorCT, 3, FALSE) EXCEPT !.status = "called"])
    /\ obs' = [NoObs EXCEPT !.op = "Functor", !.pre = M]
    /\ UNCHANGED scenario

FunctorNext == PutFunctorArgs \/ PutFreshNameArity \/ ExecFunctor

FunctorSpec == FunctorInit /\ [][FunctorNext]_vars

(* the arguments of the call of functor/3 just made, as they were *)
FunctorTerm  == store(obs.pre, deref(obs.pre, obs.pre.registers[1]))
FunctorName  == store(obs.pre, deref(obs.pre, obs.pre.registers[2]))
FunctorArity == store(obs.pre, deref(obs.pre, obs.pre.registers[3]))

FunctorCalled == obs.op = "Functor" /\ status = "called"

(* the argument in register r now *)
ArgNow(r) == store(M, deref(M, registers[r]))

(* every Str address of the heap and of the argument registers points to   *)
(* a structure header                                                      *)
StrWellFormed ==
    /\ \A k \in DOMAIN heap : heap[k].t = "Str" =>
          heap[k].a < Len(heap) /\ heap[heap[k].a + 1].t = "NamedStr"
    /\ \A r \in 1 .. 3 : ArgNow(r).t = "Str" => HeapAt(M, ArgNow(r).a).t = "NamedStr"

(* functor/3 has decomposed the structure whose header is hd *)
FunctorDecomposed(hd) ==
    LET fits == /\ is_ref(FunctorName) \/ FunctorName = Atom(hd.s)
                /\ is_ref(FunctorArity) \/ FunctorArity = Integer(hd.a)
    IN  /\ fail <=> ~fits
        /\ fits => /\ ArgNow(2) = Atom(hd.s) /\ ArgNow(3) = Integer(hd.a)
                   /\ p = PtrAdd(obs.pre.p, 1)
                   /\ heap = obs.pre.heap
                         \/ \E k \in DOMAIN heap :
                               heap = [obs.pre.heap EXCEPT ![k] = ArgNow(2)]
                                  \/ heap = [obs.pre.heap EXCEPT ![k] = ArgNow(3)]
                                  \/ \E j \in DOMAIN heap :
                                        heap = [obs.pre.heap EXCEPT ![k] = ArgNow(2),
                                                                    ![j] = ArgNow(3)]

(* functor/3 has bound the unbound term to a new structure name/arity      *)
(* whose arguments are distinct fresh unbound variables                    *)
FunctorBuilt(name, arity) ==
    LET h0 == Len(obs.pre.heap)
    IN  /\ ~fail /\ p = PtrAdd(obs.pre.p, 1)
        /\ Len(heap) = h0 + 1 + arity
        /\ ArgNow(1) = Str(h0) /\ heap[h0 + 1] = NamedStr(arity, name)
        /\ \A k \in 1 .. arity : heap[h0 + 1 + k] = HeapCell(h0 + k)

(* C14: functor(T, N, A) unifies N and A with the name and the arity of a  *)
(* structure T; for an unbound T, an atom N and an integer A > 0 it binds  *)
(* T to a new structure N/A with A distinct fresh unbound arguments; for   *)
(* A = 0 it binds T to the atom N itself, and every Str address still      *)
(* points to a structure header.                                           *)
C14_Functor ==
    FunctorCalled =>
        /\ FunctorTerm.t = "Str" /\ HeapAt(obs.pre, FunctorTerm.a).t = "NamedStr"
              => FunctorDecomposed(HeapAt(obs.pre, FunctorTerm.a))
        /\ is_ref(FunctorTerm) /\ FunctorName.t = "Atom" /\ FunctorArity.t = "Integer"
              => /\ FunctorArity.a > 0 => FunctorBuilt(FunctorName.s, FunctorArity.a)
                 /\ FunctorArity.a = 0 => ~fail /\ ArgNow(1) = FunctorName
        /\ StrWellFormed

----------------------------------------------------------------------------
(* arg/3.  The states after get_arg/3 (GetArg) has run in a call of arg/3  *)
(* with an integer N and a structure T.                                    *)

ArgGot == obs.op = "GetArg" /\ status # "panic"
ArgN == store(obs.pre, deref(obs.pre, obs.pre.registers[1]))
ArgT == store(obs.pre, deref(obs.pre, obs.pre.registers[2]))
ArgA == obs.pre.registers[3]
ArgArity == HeapAt(obs.pre, ArgT.a).a
ArgCase ==
    /\ ArgGot /\ ArgN.t = "Integer" /\ ArgT.t = "Str"
    /\ HeapAt(obs.pre, ArgT.a).t = "NamedStr"
ArgInRange == 1 <= ArgN.a /\ ArgN.a <= ArgArity
ArgNth == HeapCell(ArgT.a + ArgN.a)
ArgNothingBound ==
    /\ heap = obs.pre.heap /\ and_stack = obs.pre.and_stack
    /\ trail = obs.pre.trail /\ tr = obs.pre.tr
ArgNoException == Len(ball.cells) = 0 /\ status # "exception"

(* C12: arg(N, T, A) with an integer N and a structure T of arity k        *)
(* unifies A with the N-th argument of T when 1 <= N <= k - afterwards the *)
(* two are the same term, or the call fails because both were different    *)
(* constants -, and for every other N it fails, binds nothing and raises   *)
(* no exception.                                                           *)
C12_ArgSelects ==
    ArgCase =>
        IF ArgInRange
        THEN /\ ArgNoException
             /\ ~fail => store(M, deref(M, ArgA)) = store(M, deref(M, ArgNth))
             /\ fail => /\ is_con(store(obs.pre, deref(obs.pre, ArgA)))
                        /\ is_con(store(obs.pre, deref(obs.pre, ArgNth)))
                        /\ store(obs.pre, deref(obs.pre, ArgA))
                               # store(obs.pre, deref(obs.pre, ArgNth))
        ELSE fail /\ status = "failed" /\ ArgNothingBound /\ ArgNoException

(* arg/3 has failed for an index out of range and has selected an argument *)
C12_ArgOutOfRange == ArgCase /\ ~ArgInRange /\ ArgN.a < 0 /\ status = "failed"
C12_ArgSelected ==
    ArgCase /\ ArgInRange /\ ~fail /\ store(M, deref(M, ArgA)) = Atom("b")
----------------------------------------------------------------------------
(* The standard order of terms and sort/2.                                 *)
(*                                                                         *)
(* compare_term_test (machine_state_impl.rs 1104-1208) walks the two terms *)
(* in pre-order side by side: the walk of a term hands out the header of a *)
(* structure, the Lis cell of a list and every other cell as it is, each   *)
(* dereferenced, and goes on with the arguments from left to right.        *)

Less    == "Less"
Equal   == "Equal"
Greater == "Greater"

(* the names of the model in the order of str::cmp *)
NameOrder == <<".", "a", "b", "f", "g">>
name_rank(n) == CHOOSE k \in DOMAIN NameOrder : NameOrder[k] = n
cmp(x, y) == IF x < y THEN Less ELSE IF x > y THEN Greater ELSE Equal
name_cmp(n1, n2) == cmp(name_rank(n1), name_rank(n2))

(* Number::cmp, by value *)
num_cmp(x, y) == cmp(num_den(x).n * num_den(y).d, num_den(y).n * num_den(x).d)

(* the value the walk hands out at address a, and the addresses it then    *)
(* goes on with                                                            *)
iter_value(m, a) ==
    LET d == store(m, deref(m, a))
    IN  IF d.t = "Str" THEN HeapAt(m, d.a) ELSE d

iter_children(m, a) ==
    LET d == store(m, deref(m, a))
    IN  CASE d.t = "Str" -> [k \in 1 .. HeapAt(m, d.a).a |-> HeapCell(d.a + k)]
          [] d.t = "Lis" -> <<HeapCell(d.a), HeapCell(d.a + 1)>>
          [] OTHER       -> <<>>

(* the arms of the match in compare_term_test, Equal where the loop goes   *)
(* on with the next pair; Lis against a structure as if structure against  *)
(* Lis                                                                     *)
mixed_order(ar, n) ==
    IF ar = 2 /\ n = "." THEN Equal
    ELSE IF ar < 2 THEN Greater
    ELSE IF ar > 2 THEN Less
    ELSE name_cmp(n, ".")

compare_values(v1, v2) ==
    CASE v1.t = "HeapCell" /\ v2.t = "HeapCell" -> cmp(v1.a, v2.a)
      [] v1.t = "HeapCell" -> Less
      [] v1.t = "StackCell" /\ v2.t = "StackCell" ->
           IF v1.a > v2.a THEN Greater
           ELSE IF v1.a < v2.a \/ v1.b < v2.b THEN Less
           ELSE IF v1.b > v2.b THEN Greater ELSE Equal
      [] v1.t = "StackCell" /\ v2.t = "HeapCell" -> Greater
      [] v1.t = "StackCell" -> Less
      [] is_number(v1) /\ is_ref(v2) -> Greater
      [] is_number(v1) /\ is_number(v2) ->
           num_cmp(v1, v2)
      [] is_number(v1) -> Less
      [] v1.t = "Atom" /\ (is_ref(v2) \/ is_number(v2)) -> Greater
      [] v1.t = "Atom" /\ v2.t = "Atom" -> name_cmp(v1.s, v2.s)
      [] v1.t = "Atom" -> Less
      [] v1.t = "NamedStr" /\ v2.t = "NamedStr" ->
           IF v1.a < v2.a THEN Less
           ELSE IF v1.a > v2.a THEN Greater
           ELSE name_cmp(v1.s, v2.s)
      [] v1.t = "Lis" /\ v2.t = "Lis" -> Equal
      [] v1.t = "Lis" /\ v2.t = "NamedStr" -> mixed_order(v2.a, v2.s)
      [] v1.t = "NamedStr" /\ v2.t = "Lis" -> mixed_order(v1.a, v1.s)
      [] v1.t = "NamedStr" -> Greater
      [] v1.t = "Lis" -> Greater
      [] OTHER -> Equal

RECURSIVE compare_walk(_, _, _)
compare_walk(m, st1, st2) ==
    IF Len(st1) = 0 \/ Len(st2) = 0 THEN Equal
    ELSE LET c == compare_values(iter_value(m, Head(st1)), iter_value(m, Head(st2)))
         IN  IF c # Equal THEN c
             ELSE compare_walk(m, iter_children(m, Head(st1)) \o Tail(st1),
                                  iter_children(m, Head(st2)) \o Tail(st2))

compare_term_test(m, a1, a2) == compare_walk(m, <<a1>>, <<a2>>)

(* term_dedup (1635-1649): of neighbours that compare Equal the first stays *)
RECURSIVE term_dedup_from(_, _, _)
term_dedup_from(m, list, result) ==
    IF Len(list) = 0 THEN result
    ELSE term_dedup_from(m, Tail(list),
            IF Len(result) > 0
               /\ compare_term_test(m, result[Len(result)], Head(list)) = Equal
            THEN result ELSE Append(result, Head(list)))

term_dedup(m, list) == term_dedup_from(m, list, <<>>)

(* to_list (1651-1663) *)
RECURSIVE to_list_cells(_, _)
to_list_cells(h, values) ==
    IF Len(values) = 0 THEN <<EmptyList>>
    ELSE <<Lis(h + 1), Head(values)>> \o to_list_cells(h + 2, Tail(values))

to_list(m, values) == [m EXCEPT !.heap = @ \o to_list_cells(h_of(m), values)]

(* try_from_list (1665-1696) *)
RECURSIVE from_list_tail(_, _, _)
from_list_tail(m, l, result) ==
    LET hcv == HeapAt(m, l)
    IN  CASE hcv.t = "Lis" ->
               from_list_tail(m, hcv.a + 1,
                              Append(result, as_addr(HeapAt(m, hcv.a), hcv.a)))
          [] hcv = EmptyList -> [ok |-> TRUE, v |-> result, err |-> <<>>]
          [] OTHER -> [ok |-> FALSE, v |-> <<>>,
                       err |-> <<NamedStr(2, "type_error"), Atom("list"), hcv>>]

try_from_list(m, r) ==
    LET a1 == store(m, deref(m, Reg(m, r)))
    IN  CASE a1.t = "Lis" ->
               from_list_tail(m, a1.a + 1, <<as_addr(HeapAt(m, a1.a), a1.a)>>)
          [] is_ref(a1) -> [ok |-> FALSE, v |-> <<>>, err |-> functor0("instantiation_error")]
          [] OTHER -> [ok |-> FALSE, v |-> <<>>,
                       err |-> <<NamedStr(2, "type_error"), Atom("list"), a1>>]

(* the orders a sort by compare_term_test can leave the list in: the ones  *)
(* in which no element is Less than the one before it                      *)
Orderings(n) == {f \in [1 .. n -> 1 .. n] : \A i, j \in 1 .. n : f[i] = f[j] => i = j}
permuted(list, f) == [k \in 1 .. Len(list) |-> list[f[k]]]
is_sorted(m, list) ==
    \A k \in 1 .. Len(list) - 1 : compare_term_test(m, list[k + 1], list[k]) # Less
sorted_orders(m, list) ==
    {l \in {permuted(list, f) : f \in Orderings(Len(list))} : is_sorted(m, l)}

(* sort/2 as a built-in: the list of X1 is sorted, freed of duplicates,    *)
(* written to the heap and unified with X2                                 *)
try_sort(m, sorted) ==
    LET list == term_dedup(m, sorted)
        h    == h_of(m)
    IN  Done(unify(to_list(m, list), m.registers[2], HeapCell(h)))

SortCT == [ct |-> "Sort", name |-> "sort", arity |-> 2]

(* SortSpec: sort/2 is called with every list of at most MaxSortLen of the *)
(* terms 1, 2, a, [], f(a), [a] and a variable, and with the empty list.   *)

MaxSortLen == 3

SortHeap == <<NamedStr(1, "f"), Atom("a"), Atom("a"), EmptyList, HeapCell(4)>>
SortElements ==
    {Integer(1), Integer(2), Atom("a"), EmptyList, Str(0), Lis(2), HeapCell(4)}
SortLists == UNION {[1 .. n -> SortElements] : n \in 0 .. MaxSortLen}

SortInit == Init

(* the query ?- sort(List, L). has put its arguments *)
PutSortList ==
    /\ status = "idle" /\ heap = <<>>
    /\ \E values \in SortLists :
          LET m1 == to_list([M EXCEPT !.heap = SortHeap], values)
              m2 == HeapPush(m1, HeapCell(h_of(m1)))
          IN  Commit([m2 EXCEPT !.registers[1] = IF Len(values) = 0 THEN EmptyList
                                                 ELSE HeapCell(Len(SortHeap)),
                                !.registers[2] = HeapCell(h_of(m1)),
                                !.status = "loaded"])
    /\ UNCHANGED <<scenario, obs>>

ExecSort ==
    /\ status = "loaded"
    /\ LET list == try_from_list(M, temp_v(1))
       IN  IF list.ok
           THEN \E sorted \in sorted_orders(M, list.v) :
                   Commit([return_or_throw(try_sort(M, sorted), TRUE)
                              EXCEPT !.status = "sorted"])
           ELSE Commit([return_or_throw(Failed(M, list.err), TRUE)
                           EXCEPT !.status = "sorted"])
    /\ obs' = [NoObs EXCEPT !.op = "Sort", !.pre = M]
    /\ UNCHANGED scenario

SortNext == PutSortList \/ ExecSort

SortSpec == SortInit /\ [][SortNext]_vars

(* the list sort/2 was given and the list it has answered *)
SortInput  == try_from_list(obs.pre, temp_v(1)).v
SortAnswered ==
    /\ obs.op = "Sort" /\ ~fail /\ Len(ball.cells) = 0
    /\ try_from_list(obs.pre, temp_v(1)).ok
SortResult ==
    IF store(M, deref(M, registers[2])) = EmptyList THEN <<>>
    ELSE try_from_list(M, temp_v(2)).v
Elements(list) == {list[k] : k \in DOMAIN list}

StrictlyIncreasing(list) ==
    \A k \in 1 .. Len(list) - 1 : compare_term_test(M, list[k], list[k + 1]) = Less

(* C13: the list sort/2 answers is strictly increasing by                  *)
(* compare_term_test, has no element that the input has not, and has for   *)
(* every element of the input one that compares Equal to it.               *)
C13_SortResult ==
    SortAnswered =>
        /\ StrictlyIncreasing(SortResult)
        /\ Elements(SortResult) \subseteq Elements(SortInput)
        /\ \A x \in Elements(SortInput) : \E y \in Elements(SortResult) :
              compare_term_test(M, x, y) = Equal
----------------------------------------------------------------------------
(* The comparisons of terms: compare_term, eq_test and structural_eq_test  *)
(* on X1 and X2.                                                           *)

CompareTermQTs ==
    {"GreaterThan", "GreaterThanOrEqual", "LessThan", "LessThanOrEqual"}

(* compare_term (machine_state_impl.rs 1081-1102) *)
compare_term(m, qt) ==
    LET o == compare_term_test(m, m.registers[1], m.registers[2])
    IN  CASE o = Greater ->
               IF qt \in {"GreaterThan", "GreaterThanOrEqual"} THEN m
               ELSE [m EXCEPT !.fail = TRUE]
          [] o = Equal ->
               IF qt \in {"GreaterThanOrEqual", "LessThanOrEqual"} THEN m
               ELSE [m EXCEPT !.fail = TRUE]
          [] o = Less ->
               IF qt \in {"LessThan", "LessThanOrEqual"} THEN m
               ELSE [m EXCEPT !.fail = TRUE]

(* eq_test (1729-1753): TRUE on failure *)
RECURSIVE eq_walk(_, _, _)
eq_walk(m, st1, st2) ==
    IF Len(st1) = 0 \/ Len(st2) = 0 THEN FALSE
    ELSE LET v1   == iter_value(m, Head(st1))
             v2   == iter_value(m, Head(st2))
             more == eq_walk(m, iter_children(m, Head(st1)) \o Tail(st1),
                                iter_children(m, Head(st2)) \o Tail(st2))
         IN  IF v1.t = "NamedStr" /\ v2.t = "NamedStr"
             THEN IF v1.a # v2.a \/ v1.s # v2.s THEN TRUE ELSE more
             ELSE IF v1.t = "Lis" /\ v2.t = "Lis" THEN more
             ELSE IF v1.t # "NamedStr" /\ v2.t # "NamedStr"
             THEN IF v1 # v2 THEN TRUE ELSE more
             ELSE TRUE

eq_test(m) == eq_walk(m, <<m.registers[1]>>, <<m.registers[2]>>)

(* HashMap::get on var_pairs, a set of <<key, value>> pairs with one pair  *)
(* per key: the set of the value, empty for None                           *)
var_pairs_get(var_pairs, k) == {pr[2] : pr \in {q \in var_pairs : q[1] = k}}

(* structural_eq_test (1756-1796): TRUE on failure *)
RECURSIVE structural_walk(_, _, _, _)
structural_walk(m, st1, st2, var_pairs) ==
    IF Len(st1) = 0 \/ Len(st2) = 0 THEN FALSE
    ELSE LET v1   == iter_value(m, Head(st1))
             v2   == iter_value(m, Head(st2))
             nx1  == iter_children(m, Head(st1)) \o Tail(st1)
             nx2  == iter_children(m, Head(st2)) \o Tail(st2)
             more == structural_walk(m, nx1, nx2, var_pairs)
         IN  IF v1.t = "NamedStr" /\ v2.t = "NamedStr"
             THEN IF v1.a # v2.a \/ v1.s # v2.s THEN TRUE ELSE more
             ELSE IF v1.t = "Lis" /\ v2.t = "Lis" THEN more
             ELSE IF is_ref(v1) /\ is_ref(v2)
             THEN LET p1 == var_pairs_get(var_pairs, v1)
                      p2 == var_pairs_get(var_pairs, v2)
                  IN  IF p1 = {v2} /\ p2 = {v1} THEN more
                      ELSE IF p1 # {} \/ p2 # {} THEN TRUE
                      ELSE structural_walk(
                               m, nx1, nx2,
                               Remember(Remember(var_pairs, v1, v2), v2, v1))
             ELSE IF v1.t # "NamedStr" /\ v2.t # "NamedStr"
             THEN IF v1 # v2 THEN TRUE ELSE more
             ELSE TRUE

structural_eq_test(m) ==
    structural_walk(m, <<m.registers[1]>>, <<m.registers[2]>>, {})

(* OrderSpec: X1 and X2 are loaded with two of the terms 1, a, [], X,      *)
(* f(X, Y), f(Y, Z), f(X, X), [a] and [a, b], and one of the comparisons   *)
(* is run.                                                                 *)

OrderHeap ==
    <<NamedStr(2, "f"), HeapCell(1), HeapCell(2),
      NamedStr(2, "f"), HeapCell(2), HeapCell(5),
      NamedStr(2, "f"), HeapCell(1), HeapCell(1),
      Atom("a"), EmptyList,
      Atom("a"), Lis(13), Atom("b"), EmptyList>>

OrderElements ==
    {Integer(1), Atom("a"), EmptyList, HeapCell(1),
     Str(0), Str(3), Str(6), Lis(9), Lis(11)}

OrderInit == Init

PutOrderTerms ==
    /\ status = "idle" /\ heap = <<>>
    /\ \E x \in OrderElements, y \in OrderElements :
          Commit([M EXCEPT !.heap = OrderHeap, !.registers[1] = x,
                           !.registers[2] = y, !.status = "loaded"])
    /\ UNCHANGED <<scenario, obs>>

ExecCompareTerm ==
    /\ status = "loaded"
    /\ \E qt \in CompareTermQTs :
          /\ Commit([compare_term(M, qt) EXCEPT !.status = "compared"])
          /\ obs' = [NoObs EXCEPT !.op = qt, !.pre = M]
    /\ UNCHANGED scenario

ExecEqTest ==
    /\ status = "loaded"
    /\ Commit([M EXCEPT !.fail = eq_test(M), !.status = "compared"])
    /\ obs' = [NoObs EXCEPT !.op = "Eq", !.pre = M]
    /\ UNCHANGED scenario

ExecStructuralEq ==
    /\ status = "loaded"
    /\ Commit([M EXCEPT !.fail = structural_eq_test(M), !.status = "compared"])
    /\ obs' = [NoObs EXCEPT !.op = "StructuralEq", !.pre = M]
    /\ UNCHANGED scenario

OrderNext == PutOrderTerms \/ ExecCompareTerm \/ ExecEqTest \/ ExecStructuralEq

OrderSpec == OrderInit /\ [][OrderNext]_vars

(* the order of X1 against X2 and of X2 against X1 *)
OrderForth == compare_term_test(M, registers[1], registers[2])
OrderBack  == compare_term_test(M, registers[2], registers[1])

Accepts(qt, o) ==
    \/ o = Greater /\ qt \in {"GreaterThan", "GreaterThanOrEqual"}
    \/ o = Equal /\ qt \in {"GreaterThanOrEqual", "LessThanOrEqual"}
    \/ o = Less /\ qt \in {"LessThan", "LessThanOrEqual"}

(* C37: compare_term_test is a consistent total order: X1 is Less than X2  *)
(* exactly when X2 is Greater than X1, and X1 is Equal to X2 exactly when  *)
(* X2 is Equal to X1 and exactly when the two are identical terms, the     *)
(* empty list against an atom, a number, a variable or a list and lists of *)
(* different lengths included; compare_term succeeds as the order says.    *)
C37_ConsistentOrder ==
    obs.op \in CompareTermQTs =>
        /\ OrderForth = Less <=> OrderBack = Greater
        /\ OrderForth = Equal <=> OrderBack = Equal
        /\ OrderForth = Equal <=> ~eq_test(M)
        /\ OrderForth = Equal
              <=> term_of(M, registers[1], FALSE) = term_of(M, registers[2], FALSE)
        /\ ~fail <=> Accepts(obs.op, OrderForth)

(* the variables of a term, in the order of their occurrences *)
RECURSIVE TermVars(_), ArgVars(_)
TermVars(t) == IF t.f = "$var" THEN <<t.c>> ELSE ArgVars(t.args)
ArgVars(ts) == IF Len(ts) = 0 THEN <<>> ELSE TermVars(Head(ts)) \o ArgVars(Tail(ts))

(* the terms at a1 and a2 are equal up to a bijective renaming of their    *)
(* variables                                                               *)
Variants(m, a1, a2) ==
    /\ term_of(m, a1, TRUE) = term_of(m, a2, TRUE)
    /\ LET vs1 == TermVars(term_of(m, a1, FALSE))
           vs2 == TermVars(term_of(m, a2, FALSE))
       IN  \A i \in DOMAIN vs1, j \in DOMAIN vs1 :
               (vs1[i] = vs1[j]) <=> (vs2[i] = vs2[j])

Swapped(m) == [m EXCEPT !.registers[1] = m.registers[2],
                        !.registers[2] = m.registers[1]]

(* C40: structural_eq_test succeeds for X1 and X2 exactly when they are    *)
(* equal up to a bijective renaming of variables, variants that share      *)
(* variables, as f(X, Y) and f(Y, Z), included; it succeeds for a term and *)
(* itself, and for X1 and X2 exactly when it does for X2 and X1.           *)
C40_VariantTest ==
    obs.op = "StructuralEq" =>
        /\ ~fail <=> Variants(M, registers[1], registers[2])
        /\ registers[1] = registers[2] => ~fail
        /\ ~fail <=> ~structural_eq_test(Swapped(M))

----------------------------------------------------------------------------
(* =../2.  The queries ?- S =.. L, S2 =.. L. keep L in the first and S2 in *)
(* the second cell of their environment frame.                             *)

UnivScenarios ==
    {q \in DOMAIN queries :
        queries[q] \in {query_univ_two, query_univ_var, query_univ_nested}}
UnivS  == IF queries[scenario] = query_univ_nested THEN Str(2) ELSE Str(0)
UnivL  == StackCell(0, 1)
UnivS2 == StackCell(0, 2)

RECURSIVE list_term(_)
list_term(ts) ==
    IF Len(ts) = 0 THEN Con(EmptyList) ELSE Fun(".", <<Head(ts), list_term(Tail(ts))>>)

UnivAnswered == scenario \in UnivScenarios /\ status = "succeeded"

(* C15: S =.. L binds L to the list of the name and the arguments of the   *)
(* structure S, and S2 =.. L with S2 unbound then builds a structure S2,   *)
(* of cells of its own, that is a variant of S; neither call fails or      *)
(* throws.                                                                 *)
C15_UnivRoundTrip ==
    /\ scenario \in UnivScenarios => status \notin {"failed", "exception", "panic"}
    /\ UnivAnswered =>
          /\ term_of(M, UnivL, FALSE)
                = list_term(<<Con(Atom(term_of(M, UnivS, FALSE).f))>>
                            \o term_of(M, UnivS, FALSE).args)
          /\ store(M, deref(M, UnivS2)).t = "Str"
          /\ store(M, deref(M, UnivS2)) # UnivS
          /\ term_of(M, UnivS2, TRUE) = term_of(M, UnivS, TRUE)

(* the round trip has been made for f(g(b), 1) *)
C15_NestedRebuilt ==
    /\ UnivAnswered /\ queries[scenario] = query_univ_nested
    /\ term_of(M, UnivS2, TRUE)
          = Fun("f", <<Fun("g", <<Con(Atom("b"))>>), Con(Integer(1))>>)
----------------------------------------------------------------------------
(* TrailSpec: variables are pushed on the heap, an environment frame is    *)
(* allocated, choice points are pushed and cut, and unbound variables are  *)
(* bound by bind and by write_constant_to_var.                             *)

MaxTrailHeap    == 1
MaxTrailChoices == 1
MaxTrailSteps   == 3

TrailInit == Init

TrailPushVar ==
    /\ Len(heap) < MaxTrailHeap
    /\ Commit(HeapPush(M, HeapCell(Len(heap))))
    /\ obs' = [obs EXCEPT !.op = "", !.pre = NewMachine]
    /\ UNCHANGED scenario

TrailAllocate ==
    /\ Len(and_stack) = 0 /\ p.i < MaxTrailSteps
    /\ Commit(execute_ctrl_instr(M, Allocate(1)))
    /\ obs' = [obs EXCEPT !.op = "", !.pre = NewMachine]
    /\ UNCHANGED scenario

TrailTryMeElse ==
    /\ Len(or_stack) < MaxTrailChoices /\ p.i < MaxTrailSteps
    /\ Commit(execute_choice_instr(M, TryMeElse(1)))
    /\ obs' = [obs EXCEPT !.op = "", !.pre = NewMachine]
    /\ UNCHANGED scenario

TrailNeckCut ==
    /\ b > b0 /\ p.i < MaxTrailSteps
    /\ Commit(execute_cut_instr(M, NeckCut))
    /\ obs' = [obs EXCEPT !.op = "", !.pre = NewMachine]
    /\ UNCHANGED scenario

(* the unbound variables of the heap and of the frames *)
UnboundRefs(m) ==
    {HeapCell(k) : k \in {j \in 0 .. Len(m.heap) - 1 : HeapAt(m, j) = HeapCell(j)}}
    \cup {StackCell(fr, 1) : fr \in {j \in 0 .. Len(m.and_stack) - 1 :
                                        StackAt(m, j, 1) = StackCell(j, 1)}}

TrailBind ==
    \E r \in UnboundRefs(M) : \E a2 \in (UnboundRefs(M) \ {r}) \cup {Atom("a")} :
       /\ Commit(bind(M, r, a2))
       /\ obs' = [obs EXCEPT !.op = "bind", !.pre = M,
                             !.instr = [op |-> "bind", r |-> r, a |-> store(M, a2)]]
       /\ UNCHANGED scenario

TrailWriteConstant ==
    \E r \in UnboundRefs(M) :
       /\ Commit(write_constant_to_var(M, r, Atom("a")))
       /\ obs' = [obs EXCEPT !.op = "write_constant_to_var", !.pre = M,
                             !.instr = [op |-> "write_constant_to_var", r |-> r,
                                        a |-> Atom("a")]]
       /\ UNCHANGED scenario

TrailNext ==
    \/ TrailPushVar \/ TrailAllocate \/ TrailTryMeElse \/ TrailNeckCut
    \/ TrailBind \/ TrailWriteConstant

TrailSpec == TrailInit /\ [][TrailNext]_vars

(* the conditional-binding test: the variable is older than the current    *)
(* choice point                                                            *)
ChoiceGlobalIndex(m) == IF m.b = 0 THEN 0 ELSE OrFrame(m, m.b - 1).global_index
Conditional(m, r) ==
    IF r.t = "HeapCell" THEN r.a < m.hb
    ELSE Frame(m, r.a).global_index < ChoiceGlobalIndex(m)

Bound == obs.op \in {"bind", "write_constant_to_var"}
BoundRef == obs.instr.r

(* C17: a binding made by bind or by write_constant_to_var appends the     *)
(* bound reference to the trail and increments tr if and only if the       *)
(* reference is a heap cell below hb or a stack cell of a frame whose      *)
(* global index is smaller than that of the current choice point (0 when   *)
(* b = 0); otherwise trail and tr stay as they were.                       *)
C17_ConditionalTrailing ==
    Bound =>
        /\ store(M, BoundRef) = obs.instr.a
        /\ IF Conditional(obs.pre, BoundRef)
           THEN trail = Append(obs.pre.trail, BoundRef) /\ tr = obs.pre.tr + 1
           ELSE trail = obs.pre.trail /\ tr = obs.pre.tr

(* a stack variable older than the choice point has been bound and trailed, *)
(* a heap variable younger than it has been bound and not trailed           *)
C17_StackCellTrailed ==
    /\ obs.op = "bind" /\ BoundRef.t = "StackCell" /\ tr = obs.pre.tr + 1
    /\ \E k \in 0 .. Len(heap) - 1 :
          /\ k >= hb /\ b > 0 /\ HeapAt(M, k) # HeapCell(k)
          /\ \A j \in 1 .. tr : trail[j] # HeapCell(k)

(* C18: in every reachable state hb is the heap size h recorded in the     *)
(* current choice point or_stack[b - 1], and 0 when b = 0, also after a    *)
(* cut has lowered b.                                                      *)
C18_HbOfChoicePoint == hb = IF b = 0 THEN 0 ELSE OrFrame(M, b - 1).h

(* C19: in every reachable state every live entry of the trail (index      *)
(* below tr) is conditional: a heap cell below hb or a stack cell of a      *)
(* frame older than the current choice point; also after a cut.             *)
C19_LiveTrailConditional ==
    \A k \in 1 .. tr : k <= Len(trail) /\ Conditional(M, trail[k])
----------------------------------------------------------------------------
(* Unification.  UnifySpec builds terms into X1 and X2 with the put and    *)
(* set instructions, until the heap holds MaxUnifyCells cells, and then    *)
(* calls unify(X1, X2).                                                    *)

MaxUnifyCells == 4
UnifyRegs == 1 .. 2

UnifySets(r) ==
    {set_variable(temp_v(3)), set_constant(Atom("a")), set_constant(Atom("b")),
     set_value(perm_v(1))}
    \cup {set_value(temp_v(x)) : x \in UnifyRegs \ {r}}

UnifyInit == DupInit

UnifyBuild(is) ==
    /\ status = "building"
    /\ Len(heap) + Len(is) - (IF is[1].op = "PutList" THEN 1 ELSE 0) <= MaxUnifyCells
    /\ Commit(run_query(M, is, 1))
    /\ UNCHANGED <<scenario, obs>>

UnifyPutVar == \E r \in UnifyRegs : UnifyBuild(<<put_var(temp_v(r), r)>>)

UnifyPutConstant ==
    \E r \in UnifyRegs : \E c \in {Atom("a"), Atom("b")} :
        /\ status = "building"
        /\ Commit(run_query(M, <<put_constant(c, temp_v(r))>>, 1))
        /\ UNCHANGED <<scenario, obs>>

UnifyPutStr1 ==
    \E r \in UnifyRegs : \E x \in UnifySets(r) :
        UnifyBuild(<<put_structure("f", 1, temp_v(r)), x>>)

UnifyPutStr2 ==
    \E r \in UnifyRegs : \E n \in {"f", "g"} : \E x \in UnifySets(r), y \in UnifySets(r) :
        UnifyBuild(<<put_structure(n, 2, temp_v(r)), x, y>>)

UnifyPutList ==
    \E r \in UnifyRegs : \E x \in UnifySets(r), y \in UnifySets(r) :
        UnifyBuild(<<put_list(temp_v(r)), x, y>>)

ExecUnify ==
    /\ status = "building"
    /\ Commit([unify(M, registers[1], registers[2]) EXCEPT !.status = "unified"])
    /\ obs' = [NoObs EXCEPT !.op = "unify", !.pre = M]
    /\ UNCHANGED scenario

UnifyNext ==
    \/ UnifyPutVar \/ UnifyPutConstant \/ UnifyPutStr1 \/ UnifyPutStr2
    \/ UnifyPutList \/ ExecUnify

UnifySpec == UnifyInit /\ [][UnifyNext]_vars

(* The terms as graphs: the node at an address is the unbound variable,    *)
(* the constant, the structure or the list it dereferences to.             *)
node(m, a) == store(m, deref(m, a))
is_compound(x) == x.t \in {"Str", "Lis"}
node_args(m, x) ==
    IF x.t = "Str" THEN [k \in 1 .. HeapAt(m, x.a).a |-> node(m, HeapCell(x.a + k))]
    ELSE <<node(m, HeapCell(x.a)), node(m, HeapCell(x.a + 1))>>

(* two compound nodes of one kind with one name and one arity *)
same_functor(m, x, y) ==
    \/ x.t = "Lis" /\ y.t = "Lis"
    \/ /\ x.t = "Str" /\ y.t = "Str"
       /\ HeapAt(m, x.a).a = HeapAt(m, y.a).a
       /\ HeapAt(m, x.a).s = HeapAt(m, y.a).s

(* two nodes that no substitution makes equal: different constants,        *)
(* structures of different names or arities, terms of different kinds      *)
clash(m, x, y) ==
    /\ ~is_ref(x) /\ ~is_ref(y) /\ x # y
    /\ ~(is_compound(x) /\ is_compound(y) /\ same_functor(m, x, y))

arg_pairs(m, x, y) ==
    IF x # y /\ is_compound(x) /\ is_compound(y) /\ same_functor(m, x, y)
    THEN {<<node_args(m, x)[k], node_args(m, y)[k]>> : k \in DOMAIN node_args(m, x)}
    ELSE {}

(* the pairs of nodes that must be equal if the pairs of eqs are: with     *)
(* merge the relation is closed as an equivalence (a variable stands for   *)
(* whatever it is paired with), without it only arguments are paired       *)
closure_step(m, eqs, merge) ==
    eqs \cup UNION {arg_pairs(m, pr[1], pr[2]) : pr \in eqs}
        \cup (IF merge
              THEN {<<pr[2], pr[1]>> : pr \in eqs}
                   \cup {<<pq[1][1], pq[2][2]>> :
                            pq \in {x \in eqs \X eqs : x[1][2] = x[2][1]}}
              ELSE {})

RECURSIVE closure(_, _, _)
closure(m, eqs, merge) ==
    IF closure_step(m, eqs, merge) = eqs THEN eqs
    ELSE closure(m, closure_step(m, eqs, merge), merge)

(* unifiable without occurs check: equating the two terms equates no two   *)
(* nodes that clash                                                        *)
Unifiable(m, a1, a2) ==
    \A pr \in closure(m, {<<node(m, a1), node(m, a2)>>}, TRUE) : ~clash(m, pr[1], pr[2])

(* the same term, finite or not: no two nodes met side by side differ      *)
Identical(m, a1, a2) ==
    \A pr \in closure(m, {<<node(m, a1), node(m, a2)>>}, FALSE) :
        pr[1] = pr[2] \/ (is_compound(pr[1]) /\ is_compound(pr[2])
                            /\ same_functor(m, pr[1], pr[2]))

Unified == obs.op = "unify"
UnifyA1 == obs.pre.registers[1]
UnifyA2 == obs.pre.registers[2]

----------------------------------------------------------------------------
(* The fail flag.  StickySpec builds terms into X1..X3 as UnifySpec does,  *)
(* on a heap of at most MaxStickyCells cells and under one choice point,   *)
(* and runs on them what sets the flag: unify itself, called whatever the  *)
(* flag is, and, as the dispatch loop runs them (with the flag unset), a   *)
(* Fact line of two instructions, functor/3 and InferenceLevel.  The loop  *)
(* then sees the flag and backtracks.                                      *)

MaxStickyCells == 2
MaxStickyCalls == 2
StickyRegs == 1 .. 3
StickyConstants == {Atom("a"), Atom("f"), Integer(1), Usize(0)}

StickyStart ==
    [execute_choice_instr([DupStart EXCEPT !.p = TopLevel(1)], TryMeElse(1))
        EXCEPT !.status = "building"]

StickyInit == Start(StickyStart) /\ scenario = 0 /\ obs = NoObs

StickyBuild(is) ==
    /\ status = "building"
    /\ Len(heap) + (IF is[1].op = "PutConstant" THEN 0 ELSE Len(is)) <= MaxStickyCells
    /\ Commit(run_query(M, is, 1))
    /\ UNCHANGED <<scenario, obs>>

StickyPutVar == \E r \in StickyRegs : StickyBuild(<<put_var(temp_v(r), r)>>)

StickyPutConstant ==
    \E r \in StickyRegs : \E c \in StickyConstants :
        StickyBuild(<<put_constant(c, temp_v(r))>>)

StickyPutStr ==
    \E x \in {set_constant(Atom("a")), set_value(temp_v(2)), set_value(temp_v(3))} :
        StickyBuild(<<put_structure("f", 1, temp_v(1)), x>>)

(* at most MaxStickyCalls calls on the terms built; scenario counts them *)
StickyRun(name, i, m2) ==
    /\ status \in {"building", "called"}
    /\ scenario < MaxStickyCalls
    /\ Commit([m2 EXCEPT !.status = IF @ = "building" THEN "called" ELSE @])
    /\ obs' = [NoObs EXCEPT !.op = name, !.instr = i, !.pre = M]
    /\ scenario' = scenario + 1

(* unify(X1, X2), whatever the flag is *)
StickyUnify ==
    \E r \in 2 .. 3 :
        StickyRun("unify", [r |-> r], unify(M, registers[1], registers[r]))

StickyLines ==
    {fact(<<get_constant(c, temp_v(1)), get_value(temp_v(2), 3)>>) :
        c \in {Atom("a"), Atom("f")}}

StickyFact ==
    /\ ~fail
    /\ \E i \in StickyLines : StickyRun("Fact", i, execute_fact(M, i))

StickyFunctor ==
    /\ ~fail
    /\ LET r == try_functor(M)
       IN  StickyRun("Functor", FunctorCT,
                     IF r.ok THEN r.m ELSE [r.m EXCEPT !.status = "exception"])

StickyInferenceLevel ==
    /\ ~fail
    /\ StickyRun("InferenceLevel", InferenceLevel(temp_v(1), temp_v(2)),
                 execute_built_in_instr(M, InferenceLevel(temp_v(1), temp_v(2))))

(* the loop after the instruction *)
StickyDispatch ==
    /\ status = "called" /\ fail
    /\ Commit([after_instr(M) EXCEPT !.status = "backtracked"])
    /\ obs' = [NoObs EXCEPT !.op = "dispatch", !.pre = M]
    /\ UNCHANGED scenario

StickyNext ==
    \/ StickyPutVar \/ StickyPutConstant \/ StickyPutStr \/ StickyUnify
    \/ StickyFact \/ StickyFunctor \/ StickyInferenceLevel \/ StickyDispatch

StickySpec == StickyInit /\ [][StickyNext]_vars

StickyOp  == obs.op
StickyPre == obs.pre
StickyX(r) == StickyPre.registers[r]

(* the first instruction of the Fact line, get_constant(c, X1), fails *)
StickyFirstFails ==
    /\ ~is_ref(node(StickyPre, StickyX(1)))
    /\ node(StickyPre, StickyX(1)) # obs.instr.is[1].c

(* functor/3 on a structure whose name is not the atom in X2 *)
StickyNameFails ==
    /\ node(StickyPre, StickyX(1)).t = "Str"
    /\ ~is_ref(node(StickyPre, StickyX(2)))
    /\ node(StickyPre, StickyX(2)) # Atom(HeapAt(StickyPre, node(StickyPre, StickyX(1)).a).s)

(* C21, as claimed: once fail is true it stays true until the dispatcher   *)
(* has seen it; a call to unify made while fail is true returns with fail  *)
(* still true.                                                             *)
C21_FailSticky ==
    (StickyPre.fail /\ StickyOp # "dispatch") => fail

(* C21, amended: unify clears fail when it starts and returns with fail    *)
(* true exactly when its two arguments do not unify, whatever fail was     *)
(* before.  A flag set inside a Fact line or inside functor/3 stays set    *)
(* to the end of the instruction, no unify being called after it, and      *)
(* InferenceLevel sets it when X2 holds no choice point index; the         *)
(* dispatcher then backtracks to the newest choice point and clears it.    *)
C21_FailOfLastUnify ==
    /\ StickyOp = "unify" =>
          (fail <=> ~Unifiable(StickyPre, StickyX(1), StickyX(obs.instr.r)))
    /\ (StickyOp = "Fact" /\ StickyFirstFails) => fail
    /\ (StickyOp = "Functor" /\ StickyNameFails) => fail
    /\ (StickyOp = "InferenceLevel" /\ node(StickyPre, StickyX(2)).t # "Usize") => fail
    /\ StickyOp = "dispatch" =>
          /\ StickyPre.fail /\ ~fail
          /\ p = OrFrame(StickyPre, StickyPre.b - 1).bp

(* unify was called with fail set, on two terms that unify *)
C21_UnifyClearedFail ==
    /\ StickyOp = "unify" /\ StickyPre.fail /\ ~fail

----------------------------------------------------------------------------
(* Reference chains.  RefSpec runs the get, put, unify and set             *)
(* instructions, Allocate and Deallocate in any order a compiled clause    *)
(* can run them in.  A permanent variable has a first occurrence, which    *)
(* is a get_variable in the head of its clause (after the Allocate of its  *)
(* frame and before any put instruction) or a put_var in the body, and     *)
(* every other instruction on it comes later; obs.op tells where the       *)
(* clause of the current frame is: "head", "body" (Y1 not yet set) or      *)
(* "set".  The heap holds at most MaxRefCells cells and the AND-stack at   *)
(* most MaxRefFrames frames of one cell above the frame of the caller,     *)
(* whose Y1 is set, and p advances at most MaxRefSteps times.  A chain that does not end is the end of the run: the  *)
(* next deref of it does not return.                                       *)

MaxRefCells  == 2
MaxRefFrames == 1
MaxRefSteps  == 3
RefRegs == 1 .. 2

(* the address a chain of at most n references from a leads to, if any *)
RECURSIVE chain_end(_, _, _)
chain_end(m, a, n) ==
    IF is_ref(store(m, a)) /\ store(m, a) # a
    THEN IF n = 0 THEN [ends |-> FALSE, a |-> a] ELSE chain_end(m, store(m, a), n - 1)
    ELSE [ends |-> TRUE, a |-> a]

RefCells(m) ==
    {HeapCell(k) : k \in 0 .. h_of(m) - 1}
    \cup {StackCell(fr - 1, sc) : fr \in DOMAIN m.and_stack, sc \in 1 .. 1}

RefAddrs(m) == RefCells(m) \cup {m.registers[r] : r \in 1 .. 3}

ChainEnds(m, a) == chain_end(m, a, Cardinality(RefCells(m))).ends
ChainsEnd(m) == \A a \in RefCells(m) : ChainEnds(m, a)

RefInit == Start(DupStart) /\ scenario = 0 /\ obs = [NoObs EXCEPT !.op = "set"]

RefRun(phase, i, m2) ==
    /\ status = "building" /\ ChainsEnd(M) /\ ~fail
    /\ h_of(m2) <= MaxRefCells /\ m2.p.i <= MaxRefSteps
    /\ Commit(m2)
    /\ obs' = [NoObs EXCEPT !.op = phase,
                            !.instr = IF i.is[1].op = "PutUnsafeValue" THEN i.is[1] ELSE NoInstr]
    /\ UNCHANGED scenario

RefAllocate ==
    /\ e + 1 <= MaxRefFrames
    /\ RefRun("head", query(<<Allocate(1)>>), execute_ctrl_instr(M, Allocate(1)))

RefDeallocate ==
    /\ e > 0
    /\ RefRun("set", query(<<Deallocate>>), execute_ctrl_instr(M, Deallocate))

(* the instructions of a head or of a subterm on the temporary variables *)
RefFactLines ==
    {<<get_var_in_fact(temp_v(3 - arg), arg)>> : arg \in RefRegs}
    \cup {<<get_value(temp_v(3 - arg), arg)>> : arg \in RefRegs}
    \cup {<<get_constant(Atom("a"), temp_v(1))>>}
    \cup {<<get_structure("f", 1, temp_v(r)), unify_value(temp_v(3 - r))>> : r \in RefRegs}

RefFact ==
    \E is \in RefFactLines : RefRun(obs.op, fact(is), run_fact(M, is, 1))

(* the first occurrence of Y1 in the head: get_variable(Y1, arg) *)
RefGetPermVariable ==
    /\ obs.op = "head"
    /\ \E arg \in RefRegs :
          RefRun("set", fact(<<get_var_in_fact(perm_v(1), arg)>>),
                 run_fact(M, <<get_var_in_fact(perm_v(1), arg)>>, 1))

(* the later occurrences of Y1 in the head and in subterms *)
RefPermFactLines ==
    {<<get_value(perm_v(1), arg)>> : arg \in RefRegs}
    \cup {<<get_structure("f", 1, temp_v(r)), unify_local_value(perm_v(1))>> : r \in RefRegs}

RefPermFact ==
    /\ obs.op = "set"
    /\ \E is \in RefPermFactLines : RefRun("set", fact(is), run_fact(M, is, 1))

(* the instructions of a body goal on the temporary variables *)
RefQueryLines ==
    {<<put_var(temp_v(arg), arg)>> : arg \in RefRegs}
    \cup {<<put_value(temp_v(3 - arg), arg)>> : arg \in RefRegs}
    \cup {<<put_structure("f", 1, temp_v(r)), set_value(temp_v(3 - r))>> : r \in RefRegs}

RefQuery ==
    \E is \in RefQueryLines :
        RefRun(IF obs.op = "head" THEN "body" ELSE obs.op, query(is), run_query(M, is, 1))

(* the first occurrence of Y1 in the body: put_var(Y1, arg) *)
RefPutPermVariable ==
    /\ obs.op \in {"head", "body"}
    /\ \E arg \in RefRegs :
          RefRun("set", query(<<put_var(perm_v(1), arg)>>),
                 run_query(M, <<put_var(perm_v(1), arg)>>, 1))

(* the later occurrences of Y1 in the body *)
RefPermQueryLines ==
    {<<put_value(perm_v(1), arg)>> : arg \in RefRegs}
    \cup {<<put_unsafe_value(1, arg)>> : arg \in RefRegs}
    \cup {<<put_structure("f", 1, temp_v(r)), set_local_value(perm_v(1))>> : r \in RefRegs}

RefPermQuery ==
    /\ obs.op = "set"
    /\ \E is \in RefPermQueryLines : RefRun("set", query(is), run_query(M, is, 1))

RefNext ==
    \/ RefAllocate \/ RefDeallocate \/ RefFact \/ RefGetPermVariable \/ RefPermFact
    \/ RefQuery \/ RefPutPermVariable \/ RefPermQuery

RefSpec == RefInit /\ [][RefNext]_vars

(* C22: reference chains are acyclic except for the self-reference of an   *)
(* unbound variable: from every cell of the heap and of the AND-stack the  *)
(* chain of references ends, at a value that is no reference or at an      *)
(* unbound variable, so deref returns.                                     *)
C22_ChainsEnd == ChainsEnd(M)

(* C33: no cell of the heap holds the address of a cell of the AND-stack:  *)
(* when an unbound heap variable and an unbound stack variable are bound   *)
(* together, by unify, PutUnsafeValue, SetLocalValue or UnifyLocalValue,   *)
(* the stack variable comes to point into the heap.                        *)
C33_NoStackCellInHeap == \A k \in DOMAIN heap : heap[k].t # "StackCell"

----------------------------------------------------------------------------
(* The copier on cyclic terms.  CycSpec builds terms into X1 and X2 on a   *)
(* heap of at most MaxCycCells cells, unifies X1 and X2 (which, without    *)
(* occurs check, can make a term its own argument) and then runs the       *)
(* copier on X1.                                                           *)

MaxCycCells == 3
CycRegs == 1 .. 2

CycInit == DupInit

CycBuild(is) ==
    /\ status = "building"
    /\ Len(heap) + Len(is) - (IF is[1].op = "PutList" THEN 1 ELSE 0) <= MaxCycCells
    /\ Commit(run_query(M, is, 1))
    /\ UNCHANGED <<scenario, obs>>

CycSets(r) == {set_constant(Atom("a")), set_value(temp_v(3 - r))}

CycPutVar == \E r \in CycRegs : CycBuild(<<put_var(temp_v(r), r)>>)

CycPutStr ==
    \E r \in CycRegs : \E x \in CycSets(r) :
        CycBuild(<<put_structure("f", 1, temp_v(r)), x>>)

CycPutList ==
    \E r \in CycRegs : \E x \in CycSets(r) : \E y \in CycSets(r) :
        CycBuild(<<put_list(temp_v(r)), x, y>>)

CycUnify ==
    /\ status = "building"
    /\ Commit([unify(M, registers[1], registers[2]) EXCEPT !.status = "unified"])
    /\ obs' = [NoObs EXCEPT !.op = "unify", !.pre = M]
    /\ UNCHANGED scenario

CycCopy ==
    /\ status = "unified" /\ ~fail
    /\ Commit([copier_duplicate_term(M, registers[1])
                 EXCEPT !.status = IF @ = "looping" THEN @ ELSE "copied"])
    /\ obs' = [NoObs EXCEPT !.op = "copier", !.pre = M]
    /\ UNCHANGED scenario

CycNext == CycPutVar \/ CycPutStr \/ CycPutList \/ CycUnify \/ CycCopy

CycSpec == CycInit /\ [][CycNext]_vars

(* the term at a has itself as a subterm *)
Cyclic(m, a) ==
    \E pr \in closure(m, {<<node(m, a), node(m, a)>>}, FALSE) :
        /\ is_compound(pr[1])
        /\ \E k \in DOMAIN node_args(m, pr[1]) :
              pr[1] \in {q[1] : q \in closure(m, {<<node_args(m, pr[1])[k],
                                                    node_args(m, pr[1])[k]>>}, FALSE)}

(* C24: the copier terminates for every root term on a finite heap,        *)
(* cyclic terms included: scan reaches threshold after finitely many       *)
(* steps (here: the scan loop is not running any more after MaxScanSteps   *)
(* turns).                                                                 *)
C24_CopierTerminates == status # "looping"

----------------------------------------------------------------------------
(* C36: in every state tr is the number of entries of the trail, so the    *)
(* reference that the latest trail() recorded is the entry tr - 1 and lies *)
(* in the range that backtracking unwinds, also after tidy_trail has       *)
(* discarded entries.                                                      *)
C36_TrIsTrailLength == tr = Len(trail)

----------------------------------------------------------------------------
(* the choice point pushed by the Try or TryMeElse just executed *)
PushedFrame == or_stack[Len(or_stack)]

ChoicePushed == obs.op \in {"TryMeElse", "Try"}

(* C35: after every instruction b is the number of frames of the OR-stack. *)
(* Try and TryMeElse push one frame, which records e, cp, the previous b,  *)
(* the next alternative, tr, the top of the heap, b0 and the argument      *)
(* registers 1..num_of_args; NeckCut, UnwindStack and CleanUpBlock leave   *)
(* the first b frames of the stack and no others.                          *)
C35_BIsOrStackLength ==
    /\ b = Len(or_stack)
    /\ ChoicePushed =>
          /\ Len(or_stack) = Len(obs.pre.or_stack) + 1
          /\ SubSeq(or_stack, 1, Len(obs.pre.or_stack)) = obs.pre.or_stack
          /\ PushedFrame.e = obs.pre.e /\ PushedFrame.cp = obs.pre.cp
          /\ PushedFrame.b = obs.pre.b
          /\ PushedFrame.bp = PtrAdd(obs.pre.p, IF obs.op = "Try" THEN 1
                                                 ELSE obs.instr.offset)
          /\ PushedFrame.tr = obs.pre.tr /\ PushedFrame.h = Len(obs.pre.heap)
          /\ PushedFrame.b0 = obs.pre.b0
          /\ PushedFrame.args
                = [k \in 1 .. obs.pre.num_of_args |-> obs.pre.registers[k]]
    /\ obs.op \in {"NeckCut", "UnwindStack", "CleanUpBlock"} =>
          /\ b <= Len(obs.pre.or_stack)
          /\ or_stack = SubSeq(obs.pre.or_stack, 1, b)

(* UnwindStack removed choice points and left an older one *)
C35_UnwoundToBlock ==
    /\ obs.op = "UnwindStack"
    /\ 0 < b /\ b < Len(obs.pre.or_stack)

----------------------------------------------------------------------------
(* FrameSpec: below the frame of the query, frames are allocated and given *)
(* up, choice points are pushed, predicates are entered, NeckCut is        *)
(* executed, and a goal fails, which resumes the latest choice point at a  *)
(* RetryMeElse or a TrustMe.                                               *)

MaxFrameFrames  == 3
MaxFrameChoices == 2
MaxFrameSteps   == 7

FrameInit ==
    /\ Start([and_stack_push(NewMachine, 1, 1) EXCEPT !.status = "building"])
    /\ scenario = 0 /\ obs = NoObs

FrameAllocate ==
    /\ p.i < MaxFrameSteps
    /\ Len(allocate(M, 1).and_stack) <= MaxFrameFrames
    /\ Commit(execute_ctrl_instr(M, Allocate(1)))
    /\ obs' = [NoObs EXCEPT !.op = "Allocate", !.pre = M]
    /\ UNCHANGED scenario

FrameDeallocate ==
    /\ e > 0 /\ p.i < MaxFrameSteps
    /\ Commit(execute_ctrl_instr(M, Deallocate))
    /\ obs' = NoObs
    /\ UNCHANGED scenario

FrameTryMeElse ==
    /\ Len(or_stack) < MaxFrameChoices /\ p.i < MaxFrameSteps
    /\ Commit(execute_choice_instr(M, TryMeElse(1)))
    /\ obs' = NoObs
    /\ UNCHANGED scenario

FrameCall ==
    /\ b0 < b /\ p.i < MaxFrameSteps
    /\ Commit(goto_ptr(M, PtrAdd(p, 1), 0, TRUE))
    /\ obs' = NoObs
    /\ UNCHANGED scenario

FrameNeckCut ==
    /\ p.i < MaxFrameSteps
    /\ Commit(execute_cut_instr(M, NeckCut))
    /\ obs' = NoObs
    /\ UNCHANGED scenario

(* the goal fails: the loop goes to the alternative of the latest choice   *)
(* point, whose first instruction is run                                   *)
FrameFail(alt) ==
    /\ b > 0 /\ backtrack([M EXCEPT !.fail = TRUE]).p.i < MaxFrameSteps
    /\ Commit(execute_choice_instr(backtrack([M EXCEPT !.fail = TRUE]), alt))
    /\ obs' = NoObs
    /\ UNCHANGED scenario

FrameRetryMeElse == FrameFail(RetryMeElse(1))

FrameTrustMe == FrameFail(TrustMe)

FrameNext ==
    \/ FrameAllocate
    \/ FrameDeallocate
    \/ FrameTryMeElse
    \/ FrameCall
    \/ FrameNeckCut
    \/ FrameRetryMeElse
    \/ FrameTrustMe

FrameSpec == FrameInit /\ [][FrameNext]_vars

(* the environment fr and the environments it returns to *)
RECURSIVE Ancestors(_, _)
Ancestors(m, fr) ==
    IF Frame(m, fr).e >= fr THEN {fr} ELSE {fr} \cup Ancestors(m, Frame(m, fr).e)

(* the environments recorded in the choice points *)
ChoiceEnvs(m) == {m.or_stack[k].e : k \in 1 .. Len(m.or_stack)}

TopChoiceIndex(m) == IF m.b > 0 THEN OrFrame(m, m.b - 1).global_index ELSE 0

Reuses(m) ==
    /\ m.e + 1 < Len(m.and_stack)
    /\ Frame(m, m.e).global_index > TopChoiceIndex(m)

(* C34: Allocate leaves the current environment, its ancestors and the     *)
(* environments recorded in the choice points as they were; it takes the   *)
(* slot e + 1 only when the global index of the current environment is     *)
(* greater than that of the top choice point and pushes a frame otherwise; *)
(* the new frame records the previous e and cp, and its global index is    *)
(* greater than those of the current environment and of the choice point.  *)
C34_AllocateKeepsLiveFrames ==
    obs.op = "Allocate" =>
        /\ \A fr \in Ancestors(obs.pre, obs.pre.e) \cup ChoiceEnvs(obs.pre) :
               Frame(M, fr) = Frame(obs.pre, fr)
        /\ IF Reuses(obs.pre)
           THEN e = obs.pre.e + 1 /\ Len(and_stack) = Len(obs.pre.and_stack)
           ELSE e = Len(obs.pre.and_stack)
                /\ Len(and_stack) = Len(obs.pre.and_stack) + 1
        /\ Frame(M, e).e = obs.pre.e /\ Frame(M, e).cp = obs.pre.cp
        /\ Frame(M, e).global_index > Frame(obs.pre, obs.pre.e).global_index
        /\ Frame(M, e).global_index > TopChoiceIndex(obs.pre)

(* Allocate pushed a frame although the slot e + 1 exists: a choice point  *)
(* records that slot as its environment                                    *)
C34_PushedAboveChoiceEnv ==
    /\ obs.op = "Allocate"
    /\ obs.pre.e + 1 < Len(obs.pre.and_stack)
    /\ obs.pre.e + 1 \in ChoiceEnvs(obs.pre)
    /\ e = Len(obs.pre.and_stack)

----------------------------------------------------------------------------
(* CutSpec: variables are pushed on the heap, frames are allocated, choice *)
(* points are pushed, predicates are entered (b0 takes the value of b),    *)
(* variables are bound, and NeckCut is executed.                           *)

MaxCutHeap    == 1
MaxCutFrames  == 1
MaxCutChoices == 2
MaxCutSteps   == 5

CutInit == Init

CutPushVar ==
    /\ Len(heap) < MaxCutHeap
    /\ Commit(HeapPush(M, HeapCell(Len(heap))))
    /\ obs' = NoObs
    /\ UNCHANGED scenario

CutAllocate ==
    /\ Len(and_stack) < MaxCutFrames /\ p.i < MaxCutSteps
    /\ Commit(execute_ctrl_instr(M, Allocate(1)))
    /\ obs' = NoObs
    /\ UNCHANGED scenario

CutTryMeElse ==
    /\ Len(or_stack) < MaxCutChoices /\ p.i < MaxCutSteps
    /\ Commit(execute_choice_instr(M, TryMeElse(1)))
    /\ obs' = NoObs
    /\ UNCHANGED scenario

CutCall ==
    /\ b0 < b /\ p.i < MaxCutSteps
    /\ Commit(goto_ptr(M, PtrAdd(p, 1), 0, TRUE))
    /\ obs' = NoObs
    /\ UNCHANGED scenario

CutBind ==
    \E r \in UnboundRefs(M) :
       /\ Commit(bind(M, r, Atom("a")))
       /\ obs' = NoObs
       /\ UNCHANGED scenario

CutNeckCut ==
    /\ p.i < MaxCutSteps
    /\ Commit(execute_cut_instr(M, NeckCut))
    /\ obs' = [NoObs EXCEPT !.op = "NeckCut", !.pre = M]
    /\ UNCHANGED scenario

CutNext ==
    \/ CutPushVar
    \/ CutAllocate
    \/ CutTryMeElse
    \/ CutCall
    \/ CutBind
    \/ CutNeckCut

CutSpec == CutInit /\ [][CutNext]_vars

----------------------------------------------------------------------------
(* C25: NeckCut with b > b0 sets b to b0 and truncates the OR-stack to     *)
(* exactly b0 frames, the frames older than the entry of the predicate     *)
(* staying as they were; with b <= b0 it changes neither b nor the         *)
(* OR-stack; in both cases p advances by one and b does not grow.          *)
C25_NeckCut ==
    obs.op = "NeckCut" =>
        /\ obs.pre.b > obs.pre.b0 =>
              /\ b = obs.pre.b0
              /\ Len(or_stack) = obs.pre.b0
              /\ or_stack = SubSeq(obs.pre.or_stack, 1, obs.pre.b0)
        /\ obs.pre.b <= obs.pre.b0 =>
              /\ b = obs.pre.b
              /\ or_stack = obs.pre.or_stack
        /\ p = PtrAdd(obs.pre.p, 1)
        /\ b <= obs.pre.b

(* a NeckCut that removed a choice point and left an older one *)
C25_CutAboveOlderChoicePoint ==
    /\ obs.op = "NeckCut"
    /\ obs.pre.b > obs.pre.b0 /\ obs.pre.b0 > 0
    /\ Len(or_stack) < Len(obs.pre.or_stack)

----------------------------------------------------------------------------
(* the machine on which NeckCut calls tidy_trail: b has been lowered to b0 *)
TidyPre == [obs.pre EXCEPT !.b = obs.pre.b0]

(* the first trail index of the current choice point of TidyPre *)
TidyBase == OrFrame(TidyPre, TidyPre.b - 1).tr

(* a trailed reference that is still conditional in TidyPre *)
TidyKeeps(r) ==
    IF r.t = "HeapCell" THEN r.a < TidyPre.hb
    ELSE Frame(TidyPre, r.a).global_index
            < OrFrame(TidyPre, TidyPre.b - 1).global_index

(* how many times r stands in positions base+1 .. top of the trail tl *)
TidyCount(tl, base, top, r) == Cardinality({i \in base + 1 .. top : tl[i] = r})

TidyRefs == {obs.pre.trail[i] : i \in 1 .. obs.pre.tr} \cup {trail[i] : i \in 1 .. tr}

TidyDiscarded ==
    Cardinality({i \in TidyBase + 1 .. obs.pre.tr : ~TidyKeeps(obs.pre.trail[i])})

TidyCalled == obs.op = "NeckCut" /\ obs.pre.b > obs.pre.b0

(* C27: tidy_trail, called with b > 0, leaves in the trail from            *)
(* or_stack[b-1].tr up to tr exactly the entries of that range that are    *)
(* still conditional (heap reference below hb, stack reference of a frame  *)
(* older than the current choice point), each as often as before, leaves   *)
(* the entries below the range alone and lowers tr by the number of        *)
(* discarded entries; called with b = 0 it changes nothing.                *)
C27_TidyTrailCompacts ==
    TidyCalled =>
        IF TidyPre.b = 0
        THEN trail = obs.pre.trail /\ tr = obs.pre.tr
        ELSE /\ \A r \in TidyRefs :
                   TidyCount(trail, TidyBase, tr, r)
                      = IF TidyKeeps(r)
                        THEN TidyCount(obs.pre.trail, TidyBase, obs.pre.tr, r)
                        ELSE 0
             /\ SubSeq(trail, 1, TidyBase) = SubSeq(obs.pre.trail, 1, TidyBase)
             /\ tr = obs.pre.tr - TidyDiscarded

(* tidy_trail discarded an entry that stood below an entry it kept *)
C27_DiscardedBelowKept ==
    /\ TidyCalled /\ TidyPre.b > 0
    /\ \E i \in TidyBase + 1 .. obs.pre.tr : \E j \in i + 1 .. obs.pre.tr :
          /\ ~TidyKeeps(obs.pre.trail[i])
          /\ TidyKeeps(obs.pre.trail[j])

----------------------------------------------------------------------------
(* a cell of the current environment frame *)
InCurrentFrame(a) == a.t = "StackCell" /\ a.a = e

(* C26: after PutUnsafeValue(n, arg) the argument register neither holds   *)
(* nor dereferences to a cell of the current environment frame.            *)
C26_ArgumentOffTheFrame ==
    obs.instr.op = "PutUnsafeValue" =>
        /\ ~InCurrentFrame(registers[obs.instr.arg])
        /\ ~InCurrentFrame(deref(M, registers[obs.instr.arg]))

----------------------------------------------------------------------------
(* BallSpec: a term is built in X1, with or without a choice point below   *)
(* it, SetBall copies it into the ball, the choice point is restored or    *)
(* not, X1 is made a fresh variable on the stack or on the heap, and       *)
(* GetBall is executed.                                                    *)

MaxBallCells == 3
BallRegs     == 1 .. 2

BallInit == DupInit

BallBuild(is) ==
    /\ status = "building"
    /\ Len(heap) + Len(is) - (IF is[1].op = "PutList" THEN 1 ELSE 0) <= MaxBallCells
    /\ Commit(run_query(M, is, 1))
    /\ UNCHANGED <<scenario, obs>>

BallSets(r) == {set_constant(Atom("a")), set_variable(temp_v(3)), set_value(temp_v(3 - r))}

BallPutTerm ==
    \E r \in BallRegs :
       \E is \in {<<put_var(temp_v(r), r)>>, <<put_constant(Atom("a"), temp_v(r))>>}
                 \cup {<<put_structure("f", 1, temp_v(r)), x>> : x \in BallSets(r)}
                 \cup {<<put_list(temp_v(r)), x, set_constant(EmptyList)>> : x \in BallSets(r)} :
          BallBuild(is)

BallTryMeElse ==
    /\ status = "building" /\ b = 0
    /\ Commit(execute_choice_instr(M, TryMeElse(1)))
    /\ UNCHANGED <<scenario, obs>>

BallSetBall ==
    /\ status = "building"
    /\ Commit([execute_built_in_instr(M, SetBall) EXCEPT !.status = "thrown"])
    /\ obs' = [NoObs EXCEPT !.op = "SetBall", !.pre = M]
    /\ UNCHANGED scenario

BallTrustMe ==
    /\ status = "thrown" /\ b > 0
    /\ Commit(execute_choice_instr(M, TrustMe))
    /\ UNCHANGED <<scenario, obs>>

BallPutVariable ==
    \E r \in {temp_v(1), perm_v(1)} :
       /\ status = "thrown"
       /\ Commit([run_query(M, <<put_var(r, 1)>>, 1) EXCEPT !.status = "handling"])
       /\ UNCHANGED <<scenario, obs>>

BallGetBall ==
    /\ \/ status = "handling"
       \/ status = "building" /\ Len(ball.cells) = 0
    /\ Commit([execute_built_in_instr(M, GetBall)
                 EXCEPT !.status = IF @ = "panic" THEN @ ELSE "caught"])
    /\ obs' = [NoObs EXCEPT
                 !.op = "GetBall", !.pre = M,
                 !.instr = [op |-> "GetBall",
                            thrown |-> IF status = "handling"
                                       THEN term_of(obs.pre, obs.pre.registers[1], TRUE)
                                       ELSE Var(HeapCell(0))]]
    /\ UNCHANGED scenario

BallNext ==
    \/ BallPutTerm
    \/ BallTryMeElse
    \/ BallSetBall
    \/ BallTrustMe
    \/ BallPutVariable
    \/ BallGetBall

BallSpec == BallInit /\ [][BallNext]_vars

(* GetBall has been executed with a ball and with X1 an unbound variable *)
BallCaught ==
    /\ obs.op = "GetBall" /\ Len(obs.pre.ball.cells) > 0
    /\ is_ref(store(obs.pre, deref(obs.pre, obs.pre.registers[1])))

(* the heap top before GetBall, and the number of cells of the ball *)
BallTop == Len(obs.pre.heap)
BallLen == Len(obs.pre.ball.cells)

(* cell k of the region GetBall pushed is cell k of the ball, with an       *)
(* address moved from the origin of the ball to the heap top                *)
BallCellAligned(k) ==
    LET c == heap[BallTop + k]
        o == obs.pre.ball.cells[k]
    IN  IF o.t \in {"Lis", "HeapCell", "Str"}
        THEN /\ c.t = o.t
             /\ c.a \in BallTop .. BallTop + BallLen - 1
             /\ c.a - BallTop = o.a - obs.pre.ball.origin
        ELSE c = o

(* C28: GetBall with X1 unbound, after SetBall has copied a term into the  *)
(* ball, binds X1 to a term on the heap that is structurally the thrown    *)
(* term and whose Lis, Str and variable addresses all point into the       *)
(* region GetBall pushed, the heap top at GetBall being below, equal to or *)
(* above the one SetBall recorded; GetBall with an empty ball fails.       *)
C28_BallRoundTrip ==
    /\ BallCaught =>
          /\ status # "panic" /\ ~fail
          /\ Len(heap) = BallTop + BallLen
          /\ \A k \in 1 .. BallLen : BallCellAligned(k)
          /\ term_of(M, obs.pre.registers[1], TRUE) = obs.instr.thrown
    /\ (obs.op = "GetBall" /\ Len(obs.pre.ball.cells) = 0) => fail /\ heap = obs.pre.heap

(* the round trip with the heap top at GetBall not above the recorded one *)
C28_RoundTripNotAbove ==
    (BallCaught /\ BallTop <= obs.pre.ball.origin) =>
          /\ status # "panic" /\ ~fail
          /\ Len(heap) = BallTop + BallLen
          /\ \A k \in 1 .. BallLen : BallCellAligned(k)
          /\ term_of(M, obs.pre.registers[1], TRUE) = obs.instr.thrown

----------------------------------------------------------------------------
(* The blocks of catch/3.  obs.blocks holds, for every block installed by  *)
(* InstallNewBlock, the block that was current before it; obs.ends holds,  *)
(* for the choice point of every end_block/2, the block that was current   *)
(* when the protected goal exited.                                         *)

CatchScenario ==
    scenario \in DOMAIN queries /\ queries[scenario] \in
    {query_catch_bound, query_catch_miss, query_catch_nested, query_catch_true,
     query_catch_t, query_catch_struct, query_catch_choice}

(* ResetBlock has been executed at address n of the builtins *)
BlockResetAt(n) == obs.op = "ResetBlock" /\ obs.pre.p = DirEntry(n) /\ ~fail

(* the block that was current when the catch of block own was entered *)
EntryBlocks(own) == {pr[2] : pr \in {q \in obs.blocks : q[1] = own}}

(* C29: when the protected goal of a catch/3 has succeeded (ResetBlock of  *)
(* end_block/2, 51) and when an exception has reached its handler          *)
(* (ResetBlock of catch/4, 26), block is again the block the catch was     *)
(* entered with, so a query that is one catch/3 ends with block = 0; when  *)
(* the goal is re-entered by backtracking (ResetBlock of the second clause *)
(* of end_block/2, 56), block is again the block the catch installed.      *)
C29_BlockRestored ==
    /\ (BlockResetAt(51) \/ BlockResetAt(26)) => EntryBlocks(obs.pre.block) = {block}
    /\ BlockResetAt(56) =>
          /\ {pr[2] : pr \in {q \in obs.ends : q[1] = b + 1}} = {block}
          /\ EntryBlocks(block) = {obs.pre.block}
    /\ (CatchScenario /\ status \in {"succeeded", "failed", "exception"}) => block = 0

(* the goal of a catch has been re-entered and has succeeded again, and    *)
(* the block is the one the catch was entered with                         *)
C29_ReenteredAndLeft ==
    /\ scenario \in DOMAIN queries /\ queries[scenario] = query_catch_choice
    /\ BlockResetAt(51) /\ obs.ends # {} /\ b = 0

----------------------------------------------------------------------------
(* The choice points of catch/3.  obs.calls holds, for the choice point    *)
(* that catch/4 pushes at its entry (12), the b the catch was called with: *)
(* catch/3 reaches catch/4 without a choice instruction in between.        *)

CleanedUp == obs.op = "CleanUpBlock" /\ CatchScenario

(* the block of the catch, handed to CleanUpBlock in A1 *)
CleanUpArg == store(obs.pre, deref(obs.pre, obs.pre.registers[1]))

(* the b with which the catch of that block was called *)
CalledWith == {pr[2] : pr \in {q \in obs.calls : q[1] = CleanUpArg.a}}

(* the goal has left no choice point: the choice points of catch/4 and of  *)
(* end_block/2 are the two newest                                          *)
GoalDeterminate == obs.pre.b = CleanUpArg.a + 1

(* C39: CleanUpBlock is executed with b >= 1; when the protected goal of   *)
(* catch/3 has succeeded without leaving a choice point it removes the     *)
(* choice points of catch/4 and of end_block/2, so b and the length of the *)
(* OR-stack are what they were when catch/3 was called; when the goal has  *)
(* left choice points it removes nothing.                                  *)
C39_CleanUpBlock ==
    CleanedUp =>
        /\ obs.pre.b >= 1 /\ status # "panic" /\ ~fail
        /\ CleanUpArg.t = "Usize"
        /\ GoalDeterminate =>
              /\ CalledWith = {b}
              /\ Len(or_stack) = b
              /\ or_stack = SubSeq(obs.pre.or_stack, 1, b)
        /\ ~GoalDeterminate =>
              /\ b = obs.pre.b
              /\ or_stack = obs.pre.or_stack

(* the goal of a catch has left no choice point and CleanUpBlock has       *)
(* removed the two choice points of the catch                              *)
C39_BothRemoved ==
    /\ CleanedUp /\ GoalDeterminate
    /\ CalledWith = {b}
    /\ Len(or_stack) = Len(obs.pre.or_stack) - 2

(* the goal of a catch has left a choice point and CleanUpBlock has left   *)
(* the three choice points where they were                                 *)
C39_ChoicePointsKept ==
    /\ CleanedUp /\ ~GoalDeterminate
    /\ CalledWith # {} /\ b >= 3

----------------------------------------------------------------------------
(* IndexSpec: a term is put in X1 and one indexing instruction is executed *)
(* on it, with every choice of its offsets and of the entries of its       *)
(* table.                                                                  *)

MaxIndexCells  == 3
MaxIndexOffset == 2

IndexOffsets == 0 .. MaxIndexOffset

IndexConstants  == {Atom("a"), Atom("b"), Integer(1)}
IndexStructures == {<<"f", 1>>, <<"g", 2>>}

(* the tables: every key is missing or has one offset, 0 included *)
IndexTables(keys) ==
    UNION {{ {<<k, f[k]>> : k \in ks} : f \in [ks -> IndexOffsets] } : ks \in SUBSET keys}

IndexInit == DupInit

IndexPut ==
    \E is \in {<<put_var(temp_v(1), 1)>>, <<put_constant(EmptyList, temp_v(1))>>,
               <<put_list(temp_v(1)), set_constant(Atom("a")), set_constant(EmptyList)>>,
               <<put_structure("f", 2, temp_v(1)), set_constant(Atom("a")),
                 set_constant(Atom("b"))>>}
              \cup {<<put_constant(c, temp_v(1))>> : c \in IndexConstants}
              \cup {<<put_structure(nm[1], nm[2], temp_v(1))>>
                       \o [k \in 1 .. nm[2] |-> set_constant(Atom("a"))] :
                    nm \in IndexStructures} :
       /\ status = "building"
       /\ Len(heap) + Len(is) <= MaxIndexCells + 1
       /\ Commit(run_query(M, is, 1))
       /\ UNCHANGED <<scenario, obs>>

IndexRun(i) ==
    /\ status = "building"
    /\ Commit([execute_indexing_instr(M, i) EXCEPT !.status = "switched"])
    /\ obs' = [NoObs EXCEPT !.op = i.op, !.instr = i, !.pre = M]
    /\ UNCHANGED scenario

IndexSwitchOnTerm ==
    \E v \in IndexOffsets, c \in IndexOffsets, l \in IndexOffsets, st \in IndexOffsets :
        IndexRun(SwitchOnTerm(v, c, l, st))

IndexSwitchOnConstant ==
    \E hm \in IndexTables(IndexConstants) : IndexRun(SwitchOnConstant(Cardinality(hm), hm))

IndexSwitchOnStructure ==
    \E hm \in IndexTables(IndexStructures) : IndexRun(SwitchOnStructure(Cardinality(hm), hm))

IndexNext ==
    \/ IndexPut
    \/ IndexSwitchOnTerm
    \/ IndexSwitchOnConstant
    \/ IndexSwitchOnStructure

IndexSpec == IndexInit /\ [][IndexNext]_vars

(* the dereferenced first argument the instruction has found *)
IndexArg == store(obs.pre, deref(obs.pre, obs.pre.registers[1]))

IndexIsConstant == IndexArg.t \in {"Atom", "Integer", "Rational", "Float", "Usize", "EmptyList"}

(* the offsets the table of the instruction gives for key *)
IndexEntries(key) == {pr[2] : pr \in {q \in obs.instr.hm : q[1] = key}}

(* the offsets the instruction may select: one, or none for a missing     *)
(* entry and for an argument of the wrong tag                              *)
IndexSelected ==
    CASE obs.op = "SwitchOnTerm" ->
           (CASE IndexArg.t \in {"HeapCell", "StackCell"} -> {obs.instr.v}
              [] IndexIsConstant                          -> {obs.instr.c}
              [] IndexArg.t = "Lis"                       -> {obs.instr.l}
              [] IndexArg.t = "Str"                       -> {obs.instr.st})
      [] obs.op = "SwitchOnConstant" ->
           IF IndexIsConstant THEN IndexEntries(IndexArg) ELSE {}
      [] obs.op = "SwitchOnStructure" ->
           IF IndexArg.t = "Str"
           THEN IndexEntries(<<obs.pre.heap[IndexArg.a + 1].s, obs.pre.heap[IndexArg.a + 1].a>>)
           ELSE {}

(* C30: SwitchOnTerm selects its offset by the tag of the dereferenced     *)
(* first argument (variable, constant, list, structure), SwitchOnConstant  *)
(* by the constant and SwitchOnStructure by name and arity; a non-zero     *)
(* offset is added to p and fail stays unset; an offset 0, a missing entry *)
(* and an argument of the wrong tag set fail and leave p unchanged.        *)
C30_Indexing ==
    obs.op \in {"SwitchOnTerm", "SwitchOnConstant", "SwitchOnStructure"} =>
        IF IndexSelected \in {{}, {0}}
        THEN fail /\ p = obs.pre.p
        ELSE ~fail /\ IndexSelected = {p.i - obs.pre.p.i} /\ p.k = obs.pre.p.k

(* SwitchOnStructure has jumped for g/2 past an entry for f/1 *)
C30_StructureFound ==
    /\ obs.op = "SwitchOnStructure" /\ ~fail /\ p.i = obs.pre.p.i + 2
    /\ Cardinality(obs.instr.hm) = 2
    /\ obs.pre.heap[IndexArg.a + 1] = NamedStr(2, "g")

----------------------------------------------------------------------------
(* ModeSpec: a term is put in X1, a choice point is pushed or not, and     *)
(* GetList and GetStructure are executed on X1, one after the other, so    *)
(* that each of them is entered in Write mode and in Read mode.            *)

MaxModeCells == 4
MaxModeGets  == 2

ModeInit == DupInit

ModePut ==
    \E is \in {<<put_var(temp_v(1), 1)>>, <<put_value(perm_v(1), 1)>>,
               <<put_constant(Atom("a"), temp_v(1))>>,
               <<put_constant(EmptyList, temp_v(1))>>,
               <<put_list(temp_v(1)), set_constant(Atom("a")), set_constant(EmptyList)>>,
               <<put_structure("f", 1, temp_v(1)), set_constant(Atom("a"))>>,
               <<put_structure("g", 1, temp_v(1)), set_constant(Atom("a"))>>,
               <<put_structure("f", 2, temp_v(1)), set_constant(Atom("a")),
                 set_constant(Atom("b"))>>} :
       /\ status = "building" /\ scenario < MaxModeGets
       /\ Len(heap) + Len(is) <= MaxModeCells
       /\ Commit(run_query(M, is, 1))
       /\ obs' = NoObs
       /\ UNCHANGED scenario

ModeTryMeElse ==
    /\ status = "building" /\ b = 0 /\ scenario < MaxModeGets
    /\ Commit(execute_choice_instr(M, TryMeElse(1)))
    /\ obs' = NoObs
    /\ UNCHANGED scenario

ModeGet(i) ==
    /\ status = "building" /\ scenario < MaxModeGets
    /\ Commit(execute_fact_instr(M, i))
    /\ obs' = [NoObs EXCEPT !.op = i.op, !.instr = i, !.pre = M]
    /\ scenario' = scenario + 1

ModeGetList == ModeGet(get_list(temp_v(1)))

ModeGetStructure ==
    \E nm \in {<<"f", 1>>, <<"f", 2>>} : ModeGet(get_structure(nm[1], nm[2], temp_v(1)))

ModeNext ==
    \/ ModePut
    \/ ModeTryMeElse
    \/ ModeGetList
    \/ ModeGetStructure

ModeSpec == ModeInit /\ [][ModeNext]_vars

(* GetList or GetStructure has been executed on a machine that had not     *)
(* failed; ModeArg is what its register dereferenced to                    *)
ModeGot == obs.op \in {"GetList", "GetStructure"} /\ ~obs.pre.fail
ModeRef == deref(obs.pre, Reg(obs.pre, obs.instr.r))
ModeArg == store(obs.pre, ModeRef)
ModeTop == Len(obs.pre.heap)

(* the skeleton the instruction pushes for an unbound variable *)
ModeSkeleton ==
    IF obs.op = "GetList" THEN <<Lis(ModeTop + 1)>>
    ELSE <<Str(ModeTop + 1), NamedStr(obs.instr.arity, obs.instr.name)>>

(* the argument is a list for GetList, a structure of the name and the     *)
(* arity of the instruction for GetStructure                               *)
ModeMatches ==
    IF obs.op = "GetList" THEN ModeArg.t = "Lis"
    ELSE /\ ModeArg.t = "Str"
         /\ obs.pre.heap[ModeArg.a + 1] = NamedStr(obs.instr.arity, obs.instr.name)

(* the heap of the machine before the instruction, but for the cell of the *)
(* variable that has been bound                                            *)
ModeHeapKept ==
    \A k \in 1 .. ModeTop :
        (ModeArg.t = "HeapCell" /\ k = ModeArg.a + 1) \/ heap[k] = obs.pre.heap[k]

(* C31: GetList and GetStructure on an unbound variable push the skeleton  *)
(* of the list or structure, bind the variable to it, trailing it or not,  *)
(* and set mode to Write; on a list, or a structure of the same name and   *)
(* arity, they set s to the first payload cell and mode to Read and leave  *)
(* the heap alone; on a constant, or a structure of another name or arity, *)
(* they set fail.                                                          *)
C31_ReadWriteMode ==
    ModeGot =>
        CASE ModeArg.t \in {"HeapCell", "StackCell"} ->
               /\ ~fail /\ mode = "Write"
               /\ Len(heap) = ModeTop + Len(ModeSkeleton)
               /\ SubSeq(heap, ModeTop + 1, Len(heap)) = ModeSkeleton
               /\ ModeHeapKept
               /\ store(M, ModeArg) = ModeSkeleton[1]
               /\ \/ tr = obs.pre.tr
                  \/ tr = obs.pre.tr + 1 /\ trail[tr] = ModeArg
          [] ModeMatches ->
               /\ ~fail /\ mode = "Read" /\ heap = obs.pre.heap
               /\ s = IF obs.op = "GetList" THEN ModeArg.a ELSE ModeArg.a + 1
          [] ~ModeMatches /\ (ModeArg.t \in {"Atom", "Integer", "EmptyList"} \/
                               (obs.op = "GetStructure" /\ ModeArg.t = "Str")) -> fail
          [] OTHER -> TRUE

(* GetStructure has bound a variable, trailed it, and has left Read mode   *)
(* for Write mode                                                          *)
C31_WriteAfterRead ==
    /\ ModeGot /\ obs.op = "GetStructure" /\ ModeArg.t = "HeapCell"
    /\ obs.pre.mode = "Read" /\ mode = "Write" /\ tr = obs.pre.tr + 1
====
